---- MODULE Spec2Model ----
(***************************************************************************)
(* A model of the archiver: the LZ77 coder (compressor.py), the Huffman    *)
(* stage (huffman.py), the range coder and the LZMA packet machine         *)
(* (lzma_compressor.py), the two containers (format.py, archiver_lzma.py)  *)
(* and the two archiver facades (archiver.py, archiver_lzma.py).           *)
(*                                                                         *)
(* Conventions.  A Python bytes object is a sequence of integers 0..255.   *)
(* Positions are 0-based as in the source; At(s, i) reads s[i].  A Python  *)
(* exception is an explicit outcome (a record field ok = FALSE, or a pc    *)
(* value "raised").                                                       *)
(***************************************************************************)
EXTENDS Integers, Sequences, FiniteSets, TLC

VARIABLES
    \* ---- LZ77Compressor instance (compressor.py) and its driver
    matcher_data,    \* MatchFinder.data
    hash_chains,     \* MatchFinder.hash_chains: hash -> list of positions
    lz_pc,           \* "idle" | "compressed" | "decompressed"
    lz_calls,        \* number of compress calls made on the instance
    lz_in,           \* argument of the last compress call
    lz_tokens,       \* tokens returned by the last compress call
    lz_out,          \* result of decompress: [ok, out]
    \* ---- a RangeEncoder and a RangeDecoder fed with its output
    rc_pc,           \* "encoding" | "finished" | "decoding" | "raised"
    rc_enc,          \* the RangeEncoder
    rc_emodels,      \* the encoder side's model array
    rc_steps,        \* per encode_bit call: [idx, bit, model], model as updated
    rc_dec,          \* the RangeDecoder
    rc_dmodels,      \* the decoder side's model array
    rc_decoded,      \* per decode_bit call: [bit, model]
    \* ---- LZMACompressor instances and the calls running on them
    lzma_inst,       \* instance id -> [models, rep_distances]
    c_pc,            \* compress call: "idle" | "running" | "done" | "raised"
    c_self,          \* the instance compress runs on
    c_data,          \* compress: data
    c_pos,           \* compress: pos
    c_state,         \* compress: state
    c_encoder,       \* compress: encoder (a RangeEncoder)
    c_return,        \* compress: the returned bytes
    d_pc,            \* decompress call: "idle" | "running" | "done" | "raised"
    d_self,          \* the instance decompress runs on
    d_data,          \* decompress: data
    d_original_size, \* decompress: original_size
    d_decoder,       \* decompress: decoder (a RangeDecoder)
    d_result,        \* decompress: result
    d_state,         \* decompress: state
    d_return,        \* decompress: the returned bytes
    \* ---- compress_with_huffman / decompress_with_huffman and their caller
    hf_pc,           \* "idle" | "compressed" | "decompressed"
    hf_in,           \* argument of compress_with_huffman
    hf_packed,       \* what compress_with_huffman returned
    hf_out,          \* result of decompress_with_huffman: [ok, out]
    \* ---- a container's writer and reader and their caller
    fmt_pc,          \* "idle" | "written" | "read"
    fmt_kind,        \* "LZHA" (format.py) | "LZMA" (archiver_lzma.py)
    fmt_entries,     \* the entries given to the writer
    fmt_bytes,       \* the serialized archive
    fmt_read,        \* result of read_archive: [err, entries]
    \* ---- an Archiver, the file system it works on, and its caller
    ar_kind,         \* "none" | "LZHA" (archiver.py) | "LZMA" (archiver_lzma.py)
    ar_use_huffman,  \* Archiver.use_huffman (archiver.py)
    ar_compressor,   \* Archiver.compressor's finder: [data, hash_chains]
    ar_files,        \* input path -> the file's bytes, or NoFile
    ar_archive,      \* the file at the archive path: its bytes, or NoFile
    ar_before,       \* the file at the archive path before the last call
    ar_calls,        \* the calls made so far, by name
    ar_paths,        \* the path list of the last create_archive or add_files
    ar_outdir,       \* the output directory: file name -> bytes
    ar_log,          \* extract_archive: "OK" | "FAILED" per entry gone through
    ar_raised,       \* the exception the last call ended with, or "none"
    \* ---- TokenEncoder and LZ77Compressor.decompress given tokens and bytes
    tk_pc,           \* "idle" | "encoded" | "decoded" | "decompressed"
    tk_tokens,       \* the token list given to encode_tokens or to decompress
    tk_bytes,        \* the bytes given to decode_tokens
    tk_encoded,      \* result of encode_tokens: [ok, out]
    tk_decoded,      \* result of decode_tokens: [raised, tokens]
    tk_out,          \* result of decompress: [ok, out]
    \* ---- verify_integrity given an entry compress_file built and some bytes
    vi_pc,           \* "idle" | "built" | "verified"
    vi_data,         \* the bytes of the file the entry was built from
    vi_entry,        \* the FileEntry compress_file returned
    vi_d,            \* the bytes given to verify_integrity
    vi_result,       \* what verify_integrity returned
    \* ---- _encode_length and _decode_length over a channel that keeps the bits
    ln_pc,           \* "idle" | "encoded" | "decoded"
    ln_length,       \* the match length given to _encode_length
    ln_pos_state,    \* the pos_state given to both
    ln_enc,          \* the encoder after _encode_length: [bits, keys]
    ln_dec,          \* after _decode_length: [value, pos, keys]
    \* ---- _encode_distance and _decode_distance over a channel that keeps the bits
    ds_pc,           \* "idle" | "encoded" | "decoded"
    ds_distance,     \* the match distance given to _encode_distance
    ds_enc,          \* the encoder after _encode_distance: [bits, keys]
    ds_dec,          \* after _decode_distance: [value, pos, keys]
    \* ---- compress and decompress, packet by packet, over a channel that keeps the bits
    pk_pc,           \* "idle" | "compressing" | "decompressing" | "done" | "raised"
    pk_data,         \* the buffer given to compress
    pk_c,            \* compress: [pos, state, rep_distances, cx]
    pk_found,        \* the last call of _find_longest_match: [pos, reps, len, dist]
    pk_ctrace,       \* compress, per packet: [kind, before, after, reps]
    pk_d,            \* decompress: [result, state, rep_distances, dx]
    pk_dtrace,       \* decompress, per packet: [kind, before, after, reps]
    \* ---- a RangeEncoder given the bits of _encode_distance calls, then finish()
    en_pc,           \* "encoding" | "finished" | "raised"
    en_calls,        \* the distances given to _encode_distance so far
    en_cx,           \* the encoder and the models of the LZMACompressor: [enc, models]
    \* ---- compress on an LZMACompressor that was used before, next to a new one
    ru_pc,           \* "new" | "used" | "compressed"
    ru_before,       \* the earlier call: [call, data]
    ru_self,         \* the used LZMACompressor: [models, rep_distances]
    ru_data,         \* the buffer given to compress
    ru_out,          \* compress on the used instance: [raised, out]
    ru_fresh,        \* compress on a new instance: [raised, out]
    \* ---- main.py: one create command and one extract command, each a process of its own
    cli_pc,          \* "start" | "created" | "extracted"
    cli_files,       \* the input files: path -> bytes or NoFile
    cli_no_huffman,  \* whether create was given --no-huffman
    cli_paths,       \* the files given to create
    cli_archive,     \* the archive file: bytes or NoFile
    cli_outdir,      \* the output directory of extract: filename -> bytes
    cli_log,         \* what extract printed after each name
    cli_exit,        \* exit status of the last command
    \* ---- extract_archive of either Archiver on an archive whose entry names somebody else chose
    pt_pc,           \* "start" | "planted" | "extracted"
    pt_kind,         \* "none" | "LZHA" | "LZMA"
    pt_use_huffman,  \* use_huffman of the LZHA Archiver
    pt_archive,      \* the archive file: bytes or NoFile
    pt_outdir,       \* what extract_archive wrote: entry filename -> bytes
    pt_raised        \* what extract_archive raised

lzVars == <<matcher_data, hash_chains, lz_pc, lz_calls, lz_in, lz_tokens, lz_out>>
rcVars == <<rc_pc, rc_enc, rc_emodels, rc_steps, rc_dec, rc_dmodels, rc_decoded>>
lzmaVars == <<lzma_inst, c_pc, c_self, c_data, c_pos, c_state, c_encoder, c_return,
              d_pc, d_self, d_data, d_original_size, d_decoder, d_result, d_state,
              d_return>>

hfVars == <<hf_pc, hf_in, hf_packed, hf_out>>
fmtVars == <<fmt_pc, fmt_kind, fmt_entries, fmt_bytes, fmt_read>>
arVars == <<ar_kind, ar_use_huffman, ar_compressor, ar_files, ar_archive, ar_before,
            ar_calls, ar_paths, ar_outdir, ar_log, ar_raised>>

tkVars == <<tk_pc, tk_tokens, tk_bytes, tk_encoded, tk_decoded, tk_out>>
viVars == <<vi_pc, vi_data, vi_entry, vi_d, vi_result>>
lnVars == <<ln_pc, ln_length, ln_pos_state, ln_enc, ln_dec>>
dsVars == <<ds_pc, ds_distance, ds_enc, ds_dec>>
pkVars == <<pk_pc, pk_data, pk_c, pk_found, pk_ctrace, pk_d, pk_dtrace>>
enVars == <<en_pc, en_calls, en_cx>>
ruVars == <<ru_pc, ru_before, ru_self, ru_data, ru_out, ru_fresh>>
cliVars == <<cli_pc, cli_files, cli_no_huffman, cli_paths, cli_archive, cli_outdir, cli_log, cli_exit>>
ptVars == <<pt_pc, pt_kind, pt_use_huffman, pt_archive, pt_outdir, pt_raised>>

vars == <<lzVars, rcVars, lzmaVars, hfVars, fmtVars, arVars, tkVars, viVars, lnVars, dsVars,
          pkVars, enVars, ruVars, cliVars, ptVars>>

\* what the steps of one component leave alone
notLz == <<rcVars, lzmaVars, hfVars, fmtVars, arVars, tkVars, viVars, lnVars, dsVars, pkVars,
           enVars, ruVars, cliVars, ptVars>>
notRc == <<lzVars, lzmaVars, hfVars, fmtVars, arVars, tkVars, viVars, lnVars, dsVars, pkVars,
           enVars, ruVars, cliVars, ptVars>>
notLzma == <<lzVars, rcVars, hfVars, fmtVars, arVars, tkVars, viVars, lnVars, dsVars, pkVars,
             enVars, ruVars, cliVars, ptVars>>
notHf == <<lzVars, rcVars, lzmaVars, fmtVars, arVars, tkVars, viVars, lnVars, dsVars, pkVars,
           enVars, ruVars, cliVars, ptVars>>
notFmt == <<lzVars, rcVars, lzmaVars, hfVars, arVars, tkVars, viVars, lnVars, dsVars, pkVars,
            enVars, ruVars, cliVars, ptVars>>
notAr == <<lzVars, rcVars, lzmaVars, hfVars, fmtVars, tkVars, viVars, lnVars, dsVars, pkVars,
           enVars, ruVars, cliVars, ptVars>>
notTk == <<lzVars, rcVars, lzmaVars, hfVars, fmtVars, arVars, viVars, lnVars, dsVars, pkVars,
           enVars, ruVars, cliVars, ptVars>>
notVi == <<lzVars, rcVars, lzmaVars, hfVars, fmtVars, arVars, tkVars, lnVars, dsVars, pkVars,
           enVars, ruVars, cliVars, ptVars>>
notLn == <<lzVars, rcVars, lzmaVars, hfVars, fmtVars, arVars, tkVars, viVars, dsVars, pkVars,
           enVars, ruVars, cliVars, ptVars>>
notDs == <<lzVars, rcVars, lzmaVars, hfVars, fmtVars, arVars, tkVars, viVars, lnVars, pkVars,
           enVars, ruVars, cliVars, ptVars>>
notPk == <<lzVars, rcVars, lzmaVars, hfVars, fmtVars, arVars, tkVars, viVars, lnVars, dsVars,
           enVars, ruVars, cliVars, ptVars>>
notEn == <<lzVars, rcVars, lzmaVars, hfVars, fmtVars, arVars, tkVars, viVars, lnVars, dsVars,
           pkVars, ruVars, cliVars, ptVars>>
notRu == <<lzVars, rcVars, lzmaVars, hfVars, fmtVars, arVars, tkVars, viVars, lnVars, dsVars,
           pkVars, enVars, cliVars, ptVars>>
notCli == <<lzVars, rcVars, lzmaVars, hfVars, fmtVars, arVars, tkVars, viVars, lnVars, dsVars,
            pkVars, enVars, ruVars, ptVars>>
notPt == <<lzVars, rcVars, lzmaVars, hfVars, fmtVars, arVars, tkVars, viVars, lnVars, dsVars,
           pkVars, enVars, ruVars, cliVars>>

(***************************************************************************)
(* Bounds of the model.                                                    *)
(***************************************************************************)
LzMaxLen == 4        \* longest buffer given to LZ77Compressor.compress
LzMaxCalls == 2      \* compress calls made on one LZ77Compressor instance
RcMaxBits == 4       \* bits given to one RangeEncoder
RcNumModels == 2     \* size of the model array the range coder test uses
LzmaMaxLen == 5      \* longest buffer given to LZMACompressor.compress
HfMaxLen == 4        \* longest buffer given to compress_with_huffman
FmtMaxEntries == 2   \* most entries given to a container's writer
ArMaxPaths == 2      \* most paths given to one call of an Archiver
TkMaxTokens == 2     \* longest token list given to TokenEncoder and to decompress
TkMaxBytes == 4      \* longest byte stream given to decode_tokens
ViMaxLen == 3        \* longest file an entry is built from for verify_integrity
PkMaxLen == 9        \* longest buffer compressed packet by packet over kept bits
EnMaxCalls == 3      \* _encode_distance calls made on one RangeEncoder
RuMaxLen == 3        \* longest buffer given to a used LZMACompressor
PtMaxEntries == 2    \* most entries of an archive with chosen entry names

\* The byte values the inputs are drawn from.
ByteVals == {65, 66}

RECURSIVE SeqsUpTo(_, _)
SeqsUpTo(S, n) ==
    IF n = 0 THEN {<<>>}
    ELSE LET shorter == SeqsUpTo(S, n - 1)
         IN  shorter \cup {Append(s, x) : s \in {t \in shorter : Len(t) = n - 1}, x \in S}

\* body applied to the value of v: a local name for a value used more than
\* once, which is computed once, before the body
With(v, Body(_)) == CHOOSE r \in {Body(x) : x \in {v}} : TRUE

Min(a, b) == IF a < b THEN a ELSE b
Max(a, b) == IF a > b THEN a ELSE b

\* data[i] for an index the code has already checked to be in 0..len-1
At(s, i) == s[i + 1]

\* Python's s[i] on a list or bytearray: a negative index counts from the
\* end, and an index outside [-len, len) raises IndexError.
PyIndexOk(s, i) == IF i >= 0 THEN i < Len(s) ELSE Len(s) + i >= 0
PyIndex(s, i) == IF i >= 0 THEN s[i + 1] ELSE s[Len(s) + i + 1]

\* Python's s[a:b] for 0 <= a: clipped to the sequence, never raising
PySlice(s, a, b) ==
    LET hi == Min(b, Len(s))
    IN  IF a >= hi THEN <<>> ELSE SubSeq(s, a + 1, hi)

(***************************************************************************)
(* compressor.py                                                           *)
(***************************************************************************)
WINDOW_SIZE == 32768
MIN_MATCH == 3
MAX_MATCH == 258
HASH_SIZE == 65536
HashMul == 65599

LITERAL == 0
MATCH == 1

\* Token(token_type, length=0, distance=0, literal=0)
Token(t, len, dist, lit) == [type |-> t, length |-> len, distance |-> dist, literal |-> lit]

\* MatchFinder.hash3.  The product is reduced modulo HASH_SIZE factor by
\* factor (the result is the same modulo 2^16, and stays within TLC's
\* integers).
hash3(data, pos) ==
    IF pos + 3 > Len(data) THEN 0
    ELSE LET b0 == At(data, pos)
             b1 == IF pos + 1 < Len(data) THEN At(data, pos + 1) ELSE 0
             b2 == IF pos + 2 < Len(data) THEN At(data, pos + 2) ELSE 0
             m  == HashMul % HASH_SIZE
         IN  ((((((b0 * m) % HASH_SIZE) + b1) * m) % HASH_SIZE) + b2) % HASH_SIZE

\* hash_chains is a defaultdict(list): a missing bucket reads as [].
Chain(chains, h) == IF h \in DOMAIN chains THEN chains[h] ELSE <<>>

ChainAppend(chains, h, pos) ==
    [k \in DOMAIN chains \cup {h} |->
        IF k = h THEN Append(Chain(chains, h), pos) ELSE chains[k]]

\* MatchFinder.update: the loop "for pos in range(start_pos, len(data) - 2)"
RECURSIVE UpdateFrom(_, _, _)
UpdateFrom(chains, data, pos) ==
    IF pos >= Len(data) - 2 THEN chains
    ELSE UpdateFrom(ChainAppend(chains, hash3(data, pos), pos), data, pos + 1)

\* MatchFinder.update(data) on a finder whose fields are (chains, old_data):
\* the new hash_chains.  start_pos is the length of the previous buffer.
MatchFinder_update(chains, old_data, data) == UpdateFrom(chains, data, Len(old_data))

\* (mutant) the candidate is trusted to match as far as the hash promises,
\* without comparing the bytes
MatchLength_trustHash(data, candidate_pos, pos, max_possible_length, match_length) ==
    Min(max_possible_length, Max(match_length, MIN_MATCH + 1))

\* the inner while loop of find_best_match
RECURSIVE MatchLength(_, _, _, _, _)
MatchLength(data, candidate_pos, pos, max_possible_length, match_length) ==
    IF /\ match_length < max_possible_length
       /\ At(data, candidate_pos + match_length) = At(data, pos + match_length)
    THEN MatchLength(data, candidate_pos, pos, max_possible_length, match_length + 1)
    ELSE match_length

\* the loop "for candidate_pos in reversed(candidates)": i is the 1-based
\* index of the next candidate, walking down to 1.
RECURSIVE ScanCandidates(_, _, _, _, _, _, _)
ScanCandidates(data, candidates, i, pos, window_start, best_length, best_distance) ==
    IF i = 0 THEN <<best_length, best_distance>>
    ELSE LET candidate_pos == candidates[i] IN
         IF candidate_pos >= pos \/ candidate_pos < window_start
         THEN ScanCandidates(data, candidates, i - 1, pos, window_start,
                             best_length, best_distance)
         ELSE LET match_length ==
                      MatchLength(data, candidate_pos, pos,
                                  Min(MAX_MATCH, Len(data) - pos), 0)
              IN  IF match_length > best_length
                  THEN IF match_length >= 258
                       THEN <<match_length, pos - candidate_pos>>
                       ELSE ScanCandidates(data, candidates, i - 1, pos, window_start,
                                           match_length, pos - candidate_pos)
                  ELSE ScanCandidates(data, candidates, i - 1, pos, window_start,
                                      best_length, best_distance)

\* (mutant) the candidate's position is returned in place of the distance
find_best_match_candidatePos(chains, data, pos, window_start) ==
    IF pos + MIN_MATCH > Len(data) THEN <<>>
    ELSE LET candidates == Chain(chains, hash3(data, pos))
             best == ScanCandidates(data, candidates, Len(candidates), pos,
                                    window_start, MIN_MATCH - 1, 0)
         IN  IF best[1] >= MIN_MATCH THEN <<best[1], pos - best[2]>> ELSE <<>>

\* MatchFinder.find_best_match: <<>> is None, <<length, distance>> a match.
find_best_match(chains, data, pos, window_start) ==
    IF pos + MIN_MATCH > Len(data) THEN <<>>
    ELSE LET candidates == Chain(chains, hash3(data, pos))
             best == ScanCandidates(data, candidates, Len(candidates), pos,
                                    window_start, MIN_MATCH - 1, 0)
         IN  IF best[1] >= MIN_MATCH THEN best ELSE <<>>

\* the while loop of LZ77Compressor.compress
RECURSIVE CompressFrom(_, _, _, _)
CompressFrom(chains, data, pos, tokens) ==
    IF pos >= Len(data) THEN tokens
    ELSE LET window_start == Max(0, pos - WINDOW_SIZE)
             match == find_best_match(chains, data, pos, window_start)
         IN  IF Len(match) > 0 /\ match[1] >= MIN_MATCH
             THEN CompressFrom(chains, data, pos + match[1],
                               Append(tokens, Token(MATCH, match[1], match[2], 0)))
             ELSE CompressFrom(chains, data, pos + 1,
                               Append(tokens, Token(LITERAL, 0, 0, At(data, pos))))

\* LZ77Compressor.compress(data): [compressor, tokens], where
\* compressor is the instance's finder, [data, hash_chains]
LZ77Compressor_compress(compressor, data) ==
    IF Len(data) = 0 THEN [compressor |-> compressor, tokens |-> <<>>]
    ELSE With(MatchFinder_update(compressor.hash_chains, compressor.data, data),
              LAMBDA chains :
                  [compressor |-> [data |-> data, hash_chains |-> chains],
                   tokens |-> CompressFrom(chains, data, 0, <<>>)])

\* the loop "for _ in range(token.length)" of decompress; ok = FALSE is the
\* IndexError of output[match_pos]
RECURSIVE CopyMatch(_, _, _)
CopyMatch(output, match_pos, n) ==
    IF n <= 0 THEN [ok |-> TRUE, out |-> output]
    ELSE IF ~PyIndexOk(output, match_pos) THEN [ok |-> FALSE, out |-> <<>>]
    ELSE CopyMatch(Append(output, PyIndex(output, match_pos)), match_pos + 1, n - 1)

\* LZ77Compressor.decompress(tokens): [ok, out]; ok = FALSE when it raises
RECURSIVE DecompressFrom(_, _, _)
DecompressFrom(tokens, i, output) ==
    IF i > Len(tokens) THEN [ok |-> TRUE, out |-> output]
    ELSE LET token == tokens[i] IN
         IF token.type = LITERAL
         THEN DecompressFrom(tokens, i + 1, Append(output, token.literal))
         ELSE IF token.type = MATCH
         THEN LET r == CopyMatch(output, Len(output) - token.distance, token.length)
              IN  IF r.ok THEN DecompressFrom(tokens, i + 1, r.out) ELSE r
         ELSE DecompressFrom(tokens, i + 1, output)

LZ77_decompress(tokens) == DecompressFrom(tokens, 1, <<>>)

(***************************************************************************)
(* Wide naturals.  Python integers are unbounded and the range coder's     *)
(* low, range and code pass 2^31, so such a value is kept as its base-256  *)
(* digits, least significant first, without leading zero digits (0 is      *)
(* <<>>).                                                                 *)
(***************************************************************************)
RECURSIVE W_norm(_)
W_norm(d) ==
    IF Len(d) = 0 THEN d
    ELSE IF d[Len(d)] = 0 THEN W_norm(SubSeq(d, 1, Len(d) - 1)) ELSE d

RECURSIVE W_fromInt(_)
W_fromInt(n) == IF n = 0 THEN <<>> ELSE <<n % 256>> \o W_fromInt(n \div 256)

W_digit(d, i) == IF i <= Len(d) THEN d[i] ELSE 0

RECURSIVE W_ltFrom(_, _, _)
W_ltFrom(a, b, i) ==
    IF i = 0 THEN FALSE
    ELSE IF a[i] # b[i] THEN a[i] < b[i]
    ELSE W_ltFrom(a, b, i - 1)

\* a < b
W_lt(a, b) == IF Len(a) # Len(b) THEN Len(a) < Len(b) ELSE W_ltFrom(a, b, Len(a))

RECURSIVE W_addFrom(_, _, _, _)
W_addFrom(a, b, i, carry) ==
    IF i > Len(a) /\ i > Len(b)
    THEN IF carry = 0 THEN <<>> ELSE <<carry>>
    ELSE LET t == W_digit(a, i) + W_digit(b, i) + carry
         IN  <<t % 256>> \o W_addFrom(a, b, i + 1, t \div 256)

\* a + b
W_add(a, b) == W_addFrom(a, b, 1, 0)

RECURSIVE W_subFrom(_, _, _, _)
W_subFrom(a, b, i, borrow) ==
    IF i > Len(a) THEN <<>>
    ELSE LET t == W_digit(a, i) - W_digit(b, i) - borrow
         IN  IF t < 0 THEN <<t + 256>> \o W_subFrom(a, b, i + 1, 1)
             ELSE <<t>> \o W_subFrom(a, b, i + 1, 0)

\* a - b, for a >= b
W_sub(a, b) == W_norm(W_subFrom(a, b, 1, 0))

\* (a << 8) | byte
W_shl8(a, byte) == W_norm(<<byte>> \o a)

\* a & 0xFFFFFFFF
W_mask32(a) == W_norm(SubSeq(a, 1, Min(4, Len(a))))

\* (a << 8) & 0xFFFFFFFF
W_shl8mask32(a) == W_mask32(W_shl8(a, 0))

(***************************************************************************)
(* lzma_compressor.py: RangeEncoder and RangeDecoder                       *)
(***************************************************************************)
BIT_MODEL_TOTAL == 2048
W_TOP_VALUE == <<0, 0, 0, 1>>          \* 1 << 24
W_FF000000 == <<0, 0, 0, 255>>         \* 0xFF000000
W_FFFFFFFF == <<255, 255, 255, 255>>   \* 0xFFFFFFFF

\* (range >> 11) * model for range < 2^32 and 0 <= model <= 2048: the
\* product is below 2^32 and is built from two partial products.
Bound(range, model) ==
    LET a  == (W_digit(range, 2) + 256 * W_digit(range, 3)
                  + 65536 * W_digit(range, 4)) \div 8
        a0 == a % 65536
        a1 == a \div 65536
        p0 == a0 * model
        q  == a1 * model + (p0 \div 65536)
    IN  W_norm(<<p0 % 256, (p0 \div 256) % 256, q % 256, q \div 256>>)

\* model + ((BIT_MODEL_TOTAL - model) >> 5)
ModelAfter0(model) == model + ((BIT_MODEL_TOTAL - model) \div 32)
\* model - (model >> 5)
ModelAfter1(model) == model - (model \div 32)

\* RangeEncoder.__init__; ok = FALSE once bytearray.append has raised
RangeEncoder_init ==
    [low |-> <<>>, range |-> W_FFFFFFFF, output |-> <<>>,
     cache |-> -1, cache_size |-> 0, ok |-> TRUE]

\* "for _ in range(self.cache_size - 1): self.output.append(0xFF)"
RECURSIVE AppendFF(_, _)
AppendFF(output, n) == IF n <= 0 THEN output ELSE AppendFF(Append(output, 255), n - 1)

\* "if self.cache >= 0: self.output.append(self.cache + (self.low >> 24)) ..."
\* for low < 0xFF000000.  bytearray.append raises ValueError outside 0..255.
FlushCache(e) ==
    IF e.cache >= 0
    THEN LET b == e.cache + W_digit(e.low, 4)
         IN  IF b > 255 THEN [e EXCEPT !.ok = FALSE]
             ELSE [e EXCEPT !.output = AppendFF(Append(e.output, b), e.cache_size - 1)]
    ELSE e

\* the shift-out shared by encode_bit's while loop and finish's for loop,
\* up to and including "self.low = (self.low << 8) & 0xFFFFFFFF"
ShiftLow(e) ==
    LET f == IF W_lt(e.low, W_FF000000)
             THEN LET g == FlushCache(e)
                  IN  IF g.ok THEN [g EXCEPT !.cache = 0, !.cache_size = 1] ELSE g
             ELSE [e EXCEPT !.cache = e.cache + 1]
    IN  IF f.ok THEN [f EXCEPT !.low = W_shl8mask32(f.low)] ELSE f

\* "while self.range < self.TOP_VALUE" of encode_bit
RECURSIVE EncNormalize(_)
EncNormalize(e) ==
    IF e.ok /\ W_lt(e.range, W_TOP_VALUE)
    THEN LET f == ShiftLow(e)
         IN  IF f.ok THEN EncNormalize([f EXCEPT !.range = W_shl8mask32(f.range)]) ELSE f
    ELSE e

\* RangeEncoder.encode_bit(model, bit): [enc, model], the encoder afterwards
\* and the returned new_model
encode_bit(e, model, bit) ==
    LET bound == Bound(e.range, model)
        f == IF bit = 0
             THEN [e EXCEPT !.range = bound]
             ELSE [e EXCEPT !.low = W_add(e.low, bound), !.range = W_sub(e.range, bound)]
        new_model == IF bit = 0 THEN ModelAfter0(model) ELSE ModelAfter1(model)
    IN  IF e.ok THEN [enc |-> EncNormalize(f), model |-> new_model]
        ELSE [enc |-> e, model |-> model]

RECURSIVE ShiftLowTimes(_, _)
ShiftLowTimes(e, n) ==
    IF n = 0 \/ ~e.ok THEN e ELSE ShiftLowTimes(ShiftLow(e), n - 1)

\* RangeEncoder.finish(): the encoder afterwards; .output is the result
finish(e) ==
    LET f == ShiftLowTimes(e, 5)
    IN  IF f.ok THEN FlushCache(f) ELSE f

\* RangeDecoder._read_byte: [dec, byte]
read_byte(d) ==
    IF d.pos < Len(d.data)
    THEN [dec |-> [d EXCEPT !.pos = d.pos + 1], byte |-> At(d.data, d.pos)]
    ELSE [dec |-> d, byte |-> 0]

\* "self.code = (self.code << 8) | self._read_byte()"
ReadIntoCode(d) ==
    LET r == read_byte(d)
    IN  [r.dec EXCEPT !.code = W_shl8(r.dec.code, r.byte)]

RECURSIVE ReadIntoCodeTimes(_, _)
ReadIntoCodeTimes(d, n) == IF n = 0 THEN d ELSE ReadIntoCodeTimes(ReadIntoCode(d), n - 1)

\* RangeDecoder.__init__(data)
RangeDecoder_init(data) ==
    ReadIntoCodeTimes([data |-> data, pos |-> 0, low |-> <<>>,
                       range |-> W_FFFFFFFF, code |-> <<>>], 5)

\* "while self.range < self.TOP_VALUE" of decode_bit
RECURSIVE DecNormalize(_)
DecNormalize(d) ==
    IF W_lt(d.range, W_TOP_VALUE)
    THEN LET f == ReadIntoCode(d)
         IN  DecNormalize([f EXCEPT !.range = W_shl8mask32(f.range)])
    ELSE d

\* RangeDecoder.decode_bit(model): [dec, bit, model]
decode_bit(d, model) ==
    LET bound == Bound(d.range, model)
    IN  IF W_lt(d.code, bound)
        THEN [dec |-> DecNormalize([d EXCEPT !.range = bound]),
              bit |-> 0, model |-> ModelAfter0(model)]
        ELSE [dec |-> DecNormalize([d EXCEPT !.code = W_sub(d.code, bound),
                                             !.range = W_sub(d.range, bound)]),
              bit |-> 1, model |-> ModelAfter1(model)]

(***************************************************************************)
(* lzma_compressor.py: LZMACompressor                                      *)
(***************************************************************************)
LZMA_WINDOW_SIZE == 65536
LZMA_MIN_MATCH == 3
LZMA_MAX_MATCH == 273
NUM_REP_DISTANCES == 4
LIT_CONTEXT_BITS == 3
NUM_POS_STATES_MAX == 4

\* "LZMA"
LZMA_MAGIC == <<76, 90, 77, 65>>

RECURSIVE Pow2(_)
Pow2(n) == IF n = 0 THEN 1 ELSE 2 * Pow2(n - 1)

\* (n >> i) & 1
BitOf(n, i) == (n \div Pow2(i)) % 2

\* struct.pack of an unsigned integer of k bytes, little-endian
RECURSIVE PackLE(_, _)
PackLE(n, k) == IF k = 0 THEN <<>> ELSE <<n % 256>> \o PackLE(n \div 256, k - 1)

\* struct.unpack of little-endian bytes
RECURSIVE UnpackLE(_)
UnpackLE(b) == IF Len(b) = 0 THEN 0 ELSE b[1] + 256 * UnpackLE(Tail(b))

\* bytes.startswith
StartsWith(data, prefix) ==
    Len(data) >= Len(prefix) /\ SubSeq(data, 1, Len(prefix)) = prefix

\* The model tables of an LZMACompressor are all 1024 after __init__; a
\* table set is kept as the map of the entries written so far, keyed by
\* <<table name, index, ...>>.
ModelGet(models, key) == IF key \in DOMAIN models THEN models[key] ELSE 1024
ModelSet(models, key, v) ==
    [k \in DOMAIN models \cup {key} |-> IF k = key THEN v ELSE models[k]]

\* LZMACompressor.__init__
LZMACompressor_init == [models |-> <<>>, rep_distances |-> <<>>]

\* The encoder and the decoder handed to the methods of LZMACompressor are
\* used through encode_bit and decode_bit alone.  Next to the RangeEncoder
\* and RangeDecoder of the module the model has a pair that delivers the
\* bits unchanged and in order: a BitWriter [bits, keys] keeps the bits
\* given to encode_bit and the model entries they were given with, a
\* BitReader [bits, pos, keys] hands out bits[pos] and keeps the model
\* entries it was asked through; both update the model as encode_bit and
\* decode_bit do.
BitWriter == [bits |-> <<>>, keys |-> <<>>]
BitReader(bits) == [bits |-> bits, pos |-> 0, keys |-> <<>>]
KeepsBits(coder) == "bits" \in DOMAIN coder

\* self.T[i][j] = encoder.encode_bit(self.T[i][j], bit), on cx = [enc, models];
\* when encode_bit raises the assignment does not happen
EncBit(cx, key, bit) ==
    IF KeepsBits(cx.enc)
    THEN [enc |-> [bits |-> Append(cx.enc.bits, bit), keys |-> Append(cx.enc.keys, key)],
          models |-> ModelSet(cx.models, key,
                              IF bit = 0 THEN ModelAfter0(ModelGet(cx.models, key))
                              ELSE ModelAfter1(ModelGet(cx.models, key)))]
    ELSE
    With(encode_bit(cx.enc, ModelGet(cx.models, key), bit),
         LAMBDA r : IF r.enc.ok
                    THEN [enc |-> r.enc, models |-> ModelSet(cx.models, key, r.model)]
                    ELSE [enc |-> r.enc, models |-> cx.models])

\* "for i in range(n): bit = (value >> i) & 1; model_idx = (1 << i) + bit"
\* of _encode_length, on table len_low or len_mid
RECURSIVE EncLenTree(_, _, _, _, _, _)
EncLenTree(cx, table, pos_state, value, i, n) ==
    IF i >= n THEN cx
    ELSE LET bit == BitOf(value, i)
             model_idx == Pow2(i) + bit
         IN  EncLenTree(EncBit(cx, <<table, pos_state, model_idx>>, bit),
                        table, pos_state, value, i + 1, n)

\* "for i in range(n): bit = (value >> i) & 1; self.T[i + off] = ..." of
\* _encode_length (len_high) and _encode_distance (dist_models)
RECURSIVE EncPlainBits(_, _, _, _, _, _)
EncPlainBits(cx, table, off, value, i, n) ==
    IF i >= n THEN cx
    ELSE EncPlainBits(EncBit(cx, <<table, i + off>>, BitOf(value, i)),
                      table, off, value, i + 1, n)

\* LZMACompressor._encode_length
encode_length(cx, match_length, pos_state) ==
    LET length == match_length - LZMA_MIN_MATCH
    IN  IF length < 8 THEN EncLenTree(cx, "len_low", pos_state, length, 0, 3)
        ELSE IF length < 10 THEN EncLenTree(cx, "len_mid", pos_state, length, 0, 3)
        ELSE EncPlainBits(cx, "len_high", 0, length, 0, 8)

\* LZMACompressor._encode_distance
encode_distance(cx, distance) ==
    IF distance <= 4 THEN EncPlainBits(cx, "dist_models", 0, distance - 1, 0, 2)
    ELSE IF distance <= 127 THEN EncPlainBits(cx, "dist_models", 2, distance, 0, 7)
    ELSE EncPlainBits(cx, "dist_models", 9, distance, 0, 16)

\* bit, self.T[..] = decoder.decode_bit(self.T[..]), on dx = [dec, models]:
\* [dx, bit]
DecBit(dx, key) ==
    IF KeepsBits(dx.dec)
    THEN LET bit == IF dx.dec.pos < Len(dx.dec.bits) THEN dx.dec.bits[dx.dec.pos + 1] ELSE 0
         IN  [dx |-> [dec |-> [bits |-> dx.dec.bits, pos |-> dx.dec.pos + 1,
                               keys |-> Append(dx.dec.keys, key)],
                      models |-> ModelSet(dx.models, key,
                                          IF bit = 0 THEN ModelAfter0(ModelGet(dx.models, key))
                                          ELSE ModelAfter1(ModelGet(dx.models, key)))],
              bit |-> bit]
    ELSE
    With(decode_bit(dx.dec, ModelGet(dx.models, key)),
         LAMBDA r : [dx |-> [dec |-> r.dec, models |-> ModelSet(dx.models, key, r.model)],
                     bit |-> r.bit])

\* "for i in range(n): model_idx = (1 << i); bit, ... ; length |= bit << (i + sh)"
\* of _decode_length: [dx, value]
RECURSIVE DecLenTree(_, _, _, _, _, _, _)
DecLenTree(dx, table, pos_state, value, i, n, sh) ==
    IF i >= n THEN [dx |-> dx, value |-> value]
    ELSE With(DecBit(dx, <<table, pos_state, Pow2(i)>>),
              LAMBDA r : DecLenTree(r.dx, table, pos_state,
                                    value + r.bit * Pow2(i + sh), i + 1, n, sh))

\* "for i in range(n): bit, ... = decode_bit(self.T[i + off]); value |= bit << i"
RECURSIVE DecPlainBits(_, _, _, _, _, _)
DecPlainBits(dx, table, off, value, i, n) ==
    IF i >= n THEN [dx |-> dx, value |-> value]
    ELSE With(DecBit(dx, <<table, i + off>>),
              LAMBDA r : DecPlainBits(r.dx, table, off, value + r.bit * Pow2(i), i + 1, n))

\* LZMACompressor._decode_length: [dx, value]
decode_length(dx, pos_state) ==
    With(DecLenTree(dx, "len_low", pos_state, 0, 0, 3, 0), LAMBDA low :
    IF low.value < 8 THEN [dx |-> low.dx, value |-> low.value + LZMA_MIN_MATCH]
    ELSE With(DecLenTree(low.dx, "len_mid", pos_state, low.value, 0, 2, 3), LAMBDA mid :
         IF mid.value < 10 THEN [dx |-> mid.dx, value |-> mid.value + LZMA_MIN_MATCH]
         ELSE With(DecPlainBits(mid.dx, "len_high", 0, 0, 0, 8), LAMBDA high :
              [dx |-> high.dx, value |-> high.value + 10 + LZMA_MIN_MATCH])))

\* LZMACompressor._decode_distance: [dx, value]
decode_distance(dx) ==
    With(DecPlainBits(dx, "dist_models", 0, 0, 0, 2), LAMBDA slot :
    IF slot.value < 4 THEN [dx |-> slot.dx, value |-> slot.value + 1]
    ELSE With(DecPlainBits(slot.dx, "dist_models", 2, 0, 0, 7), LAMBDA d7 :
         IF d7.value <= 127 THEN [dx |-> d7.dx, value |-> d7.value + 1]
         ELSE With(DecPlainBits(d7.dx, "dist_models", 9, 0, 0, 16), LAMBDA d16 :
              [dx |-> d16.dx, value |-> d16.value + 128 + 1])))

\* the inner loop of the rep probe of _find_longest_match
RECURSIVE RepLen(_, _, _, _)
RepLen(data, current_pos, rep_dist, length) ==
    IF length >= LZMA_MAX_MATCH THEN length
    ELSE IF current_pos + length >= Len(data) THEN length
    ELSE IF At(data, current_pos + length) = At(data, current_pos + length - rep_dist)
    THEN RepLen(data, current_pos, rep_dist, length + 1)
    ELSE length

\* "for i, rep_dist in enumerate(rep_distances)": <<max_len, best_dist>>
RECURSIVE ProbeReps(_, _, _, _, _, _)
ProbeReps(data, current_pos, rep_distances, i, max_len, best_dist) ==
    IF i >= Len(rep_distances) THEN <<max_len, best_dist>>
    ELSE LET rep_dist == At(rep_distances, i) IN
         IF rep_dist = 0 \/ (current_pos - rep_dist) < 0
         THEN ProbeReps(data, current_pos, rep_distances, i + 1, max_len, best_dist)
         ELSE LET rep_len == RepLen(data, current_pos, rep_dist, 0)
              IN  IF rep_len >= LZMA_MIN_MATCH /\ rep_len > max_len
                  THEN ProbeReps(data, current_pos, rep_distances, i + 1, rep_len, -(i + 1))
                  ELSE ProbeReps(data, current_pos, rep_distances, i + 1, max_len, best_dist)

\* "for length in range(max_len, self.MAX_MATCH)" of the new-match scan:
\* current_len counts the equal bytes found from offset max_len on
RECURSIVE NewLen(_, _, _, _, _)
NewLen(data, current_pos, match_pos, length, current_len) ==
    IF length >= LZMA_MAX_MATCH THEN current_len
    ELSE IF current_pos + length >= Len(data) THEN current_len
    ELSE IF At(data, match_pos + length) = At(data, current_pos + length)
    THEN NewLen(data, current_pos, match_pos, length + 1, current_len + 1)
    ELSE current_len

\* "for match_pos in range(history_start, current_pos)": <<max_len, best_dist>>
RECURSIVE ScanNew(_, _, _, _, _)
ScanNew(data, current_pos, match_pos, max_len, best_dist) ==
    IF match_pos >= current_pos THEN <<max_len, best_dist>>
    ELSE LET dist == current_pos - match_pos
             current_len == NewLen(data, current_pos, match_pos, max_len, 0)
         IN  IF current_len >= LZMA_MIN_MATCH /\ current_len > max_len
             THEN IF current_len = LZMA_MAX_MATCH
                  THEN <<current_len, dist>>
                  ELSE ScanNew(data, current_pos, match_pos + 1, current_len, dist)
             ELSE ScanNew(data, current_pos, match_pos + 1, max_len, best_dist)

\* LZMACompressor._find_longest_match: <<max_len, best_dist>>, best_dist
\* being -(slot + 1) for a rep match
find_longest_match(data, current_pos, rep_distances) ==
    LET history_start == Max(0, current_pos - LZMA_WINDOW_SIZE)
        rep == ProbeReps(data, current_pos, rep_distances, 0, 0, 0)
    IN  ScanNew(data, current_pos, history_start, rep[1], rep[2])

\* list.pop(idx) followed by list.insert(0, x) on a list of four
PopIndex(l, idx) == SubSeq(l, 1, idx) \o SubSeq(l, idx + 2, Len(l))
Insert0(l, x) == <<x>> \o l

\* the literal coder: "for bit_pos in range(7, -1, -1)" of compress
RECURSIVE EncLiteral(_, _, _, _, _, _)
EncLiteral(cx, lit_context, state, byte_val, bit_pos, current_prefix) ==
    IF bit_pos < 0 THEN cx
    ELSE LET bit == BitOf(byte_val, bit_pos)
         IN  EncLiteral(EncBit(cx, <<"lit_models", lit_context, state, current_prefix>>, bit),
                        lit_context, state, byte_val, bit_pos - 1, 2 * current_prefix + bit)

\* the literal coder of decompress: [dx, value]
RECURSIVE DecLiteral(_, _, _, _, _, _)
DecLiteral(dx, lit_context, state, byte_val, bit_pos, current_prefix) ==
    IF bit_pos < 0 THEN [dx |-> dx, value |-> byte_val]
    ELSE With(DecBit(dx, <<"lit_models", lit_context, state, current_prefix>>),
              LAMBDA r : DecLiteral(r.dx, lit_context, state,
                                    byte_val + r.bit * Pow2(bit_pos),
                                    bit_pos - 1, 2 * current_prefix + r.bit))

\* the state updates of compress and decompress
StateAfterLiteral(state) ==
    IF state < 4 THEN 0 ELSE IF state < 10 THEN state - 3 ELSE state - 7
\* (mutant) a rep match always gives 10
StateAfterRep_always10(state) == 10

StateAfterRep(state) == IF state < 7 THEN 10 ELSE 11
StateAfterMatch == 7

\* the literal branch of compress
CompressLiteral(data, pos, state, rep_distances, cx, pos_state) ==
    LET c1 == EncBit(cx, <<"is_match", pos_state, state>>, 0)
        prev_byte == IF pos > 0 THEN At(data, pos - 1) ELSE 0
        lit_context == prev_byte \div Pow2(8 - LIT_CONTEXT_BITS)
        c2 == EncLiteral(c1, lit_context, state, At(data, pos), 7, 1)
    IN  [cx |-> c2, pos |-> pos + 1, state |-> StateAfterLiteral(state),
         rep_distances |-> rep_distances]

\* the rep-match branch of compress, after is_match = 1 was coded into c1
CompressRep(pos, state, rep_distances, c1, pos_state, match_len, match_dist) ==
    LET c2 == EncBit(c1, <<"is_rep", pos_state, state>>, 1)
        rep_idx == -(match_dist + 1)
        bit_rep0 == IF rep_idx > 0 THEN 1 ELSE 0
        c3 == EncBit(c2, <<"is_rep0", pos_state, state>>, bit_rep0)
        c4 == With(c3, LAMBDA c :
                   IF rep_idx = 0
                   THEN EncBit(c, <<"is_rep0_long", pos_state, state>>,
                               IF match_len > 1 THEN 1 ELSE 0)
                   ELSE EncBit(c, <<"is_rep1", pos_state, state>>,
                               IF rep_idx = 2 THEN 1 ELSE 0))
        current_dist == At(rep_distances, rep_idx)
        reps == Insert0(PopIndex(rep_distances, rep_idx), current_dist)
        c5 == encode_length(c4, match_len, pos_state)
    IN  [cx |-> c5, pos |-> pos + match_len, state |-> StateAfterRep(state),
         rep_distances |-> reps]

\* the new-match branch of compress, after is_match = 1 was coded into c1
CompressNewMatch(pos, state, rep_distances, c1, pos_state, match_len, match_dist) ==
    LET c2 == EncBit(c1, <<"is_rep", pos_state, state>>, 0)
        reps == Insert0(PopIndex(rep_distances, NUM_REP_DISTANCES - 1), match_dist)
        c3 == encode_length(c2, match_len, pos_state)
        c4 == encode_distance(c3, match_dist)
    IN  [cx |-> c4, pos |-> pos + match_len, state |-> StateAfterMatch,
         rep_distances |-> reps]

\* One iteration of the while loop of LZMACompressor.compress, on the
\* locals (pos, state), self.rep_distances and cx = [enc, models]:
\* [cx, pos, state, rep_distances].  When the encoder raises, cx.enc.ok is
\* FALSE and the other fields are not meaningful.
CompressPacket(data, pos, state, rep_distances, cx) ==
    With(find_longest_match(data, pos, rep_distances), LAMBDA found :
    LET pos_state == pos % NUM_POS_STATES_MAX
        match_len == found[1]
        match_dist == found[2]
        is_match_possible == (match_len >= LZMA_MIN_MATCH)
    IN  IF ~is_match_possible \/ (match_len = 1 /\ state < 7)
        THEN CompressLiteral(data, pos, state, rep_distances, cx, pos_state)
        ELSE IF match_dist < 0
        THEN CompressRep(pos, state, rep_distances,
                         EncBit(cx, <<"is_match", pos_state, state>>, 1),
                         pos_state, match_len, match_dist)
        ELSE CompressNewMatch(pos, state, rep_distances,
                              EncBit(cx, <<"is_match", pos_state, state>>, 1),
                              pos_state, match_len, match_dist))

\* "for _ in range(match_len)" of decompress: [ok, out]; ok = FALSE is the
\* ValueError raised for a copy index outside the output
RECURSIVE ApplyMatch(_, _, _, _)
ApplyMatch(result, distance, n, original_size) ==
    IF n <= 0 THEN [ok |-> TRUE, out |-> result]
    ELSE IF Len(result) >= original_size THEN [ok |-> TRUE, out |-> result]
    ELSE LET copy_idx == Len(result) - distance IN
         IF copy_idx < 0 \/ copy_idx >= Len(result) THEN [ok |-> FALSE, out |-> result]
         ELSE ApplyMatch(Append(result, At(result, copy_idx)), distance, n - 1, original_size)

\* "distance = self.rep_distances[0]" and the copy loop that ends a match
\* iteration of decompress
FinishMatch(result, state, reps, dx, match_len, original_size) ==
    With(ApplyMatch(result, At(reps, 0), match_len, original_size), LAMBDA cp :
         [ok |-> cp.ok, dx |-> dx, result |-> cp.out, state |-> state,
          rep_distances |-> reps])

\* the rep-match branch of decompress, r3 being the decoded is_rep0 bit
DecompressRep(result, state, rep_distances, r3, pos_state, original_size) ==
    With(IF r3.bit = 0
         THEN DecBit(r3.dx, <<"is_rep0_long", pos_state, state>>)
         ELSE DecBit(r3.dx, <<"is_rep1", pos_state, state>>), LAMBDA r4 :
    LET rep_idx == IF r3.bit = 0 THEN 0 ELSE IF r4.bit = 0 THEN 1 ELSE 2
        current_dist == At(rep_distances, rep_idx)
    IN  With(decode_length(r4.dx, pos_state), LAMBDA ln :
             FinishMatch(result, StateAfterRep(state),
                         Insert0(PopIndex(rep_distances, rep_idx), current_dist),
                         ln.dx, ln.value, original_size)))

\* the new-match branch of decompress
DecompressNewMatch(result, rep_distances, dx, pos_state, original_size) ==
    With(decode_length(dx, pos_state), LAMBDA ln :
    With(decode_distance(ln.dx), LAMBDA ds :
    LET match_dist == IF ds.value = 0 THEN 1 ELSE ds.value
    IN  FinishMatch(result, StateAfterMatch,
                    Insert0(PopIndex(rep_distances, NUM_REP_DISTANCES - 1), match_dist),
                    ds.dx, ln.value, original_size)))

\* One iteration of the while loop of LZMACompressor.decompress, up to the
\* end of the match copy: [ok, dx, result, state, rep_distances]
DecompressPacket(result, state, rep_distances, dx, original_size) ==
    LET pos == Len(result)
        pos_state == pos % NUM_POS_STATES_MAX
    IN  With(DecBit(dx, <<"is_match", pos_state, state>>), LAMBDA r1 :
        IF r1.bit = 0
        THEN LET prev_byte == IF pos > 0 THEN At(result, pos - 1) ELSE 0
                 lit_context == prev_byte \div Pow2(8 - LIT_CONTEXT_BITS)
             IN  With(DecLiteral(r1.dx, lit_context, state, 0, 7, 1), LAMBDA lit :
                      [ok |-> TRUE, dx |-> lit.dx, result |-> Append(result, lit.value),
                       state |-> StateAfterLiteral(state),
                       rep_distances |-> rep_distances])
        ELSE With(DecBit(r1.dx, <<"is_rep", pos_state, state>>), LAMBDA r2 :
             IF r2.bit = 1
             THEN DecompressRep(result, state, rep_distances,
                                DecBit(r2.dx, <<"is_rep0", pos_state, state>>),
                                pos_state, original_size)
             ELSE DecompressNewMatch(result, rep_distances, r2.dx, pos_state,
                                     original_size)))

(***************************************************************************)
(* One LZ77Compressor instance, used for a succession of buffers as        *)
(* Archiver.compress_file uses it for successive files.                    *)
(***************************************************************************)
LzInputs == SeqsUpTo(ByteVals, LzMaxLen)

LzInit ==
    /\ matcher_data = <<>>
    /\ hash_chains = <<>>
    /\ lz_pc = "idle"
    /\ lz_calls = 0
    /\ lz_in = <<>>
    /\ lz_tokens = <<>>
    /\ lz_out = [ok |-> TRUE, out |-> <<>>]

\* LZ77Compressor.compress(data)
LZ77Compress(data) ==
    /\ lz_pc \in {"idle", "decompressed"}
    /\ lz_calls < LzMaxCalls
    /\ lz_calls' = lz_calls + 1
    /\ lz_in' = data
    /\ \E r \in {LZ77Compressor_compress([data |-> matcher_data,
                                           hash_chains |-> hash_chains], data)} :
           /\ matcher_data' = r.compressor.data
           /\ hash_chains' = r.compressor.hash_chains
           /\ lz_tokens' = r.tokens
    /\ lz_pc' = "compressed"
    /\ UNCHANGED lz_out
    /\ UNCHANGED notLz

\* LZ77Compressor.decompress(tokens) on the tokens just produced
LZ77Decompress ==
    /\ lz_pc = "compressed"
    /\ lz_out' = LZ77_decompress(lz_tokens)
    /\ lz_pc' = "decompressed"
    /\ UNCHANGED <<matcher_data, hash_chains, lz_calls, lz_in, lz_tokens>>
    /\ UNCHANGED notLz

LzNext ==
    \/ \E data \in LzInputs : LZ77Compress(data)
    \/ LZ77Decompress

(***************************************************************************)
(* A RangeEncoder coding a bit sequence through a small model array, and a *)
(* RangeDecoder reading finish()'s bytes through the same model indices.   *)
(***************************************************************************)
NoDecoder == [data |-> <<>>, pos |-> 0, low |-> <<>>, range |-> <<>>, code |-> <<>>]

RcInit ==
    /\ rc_pc = "encoding"
    /\ rc_enc = RangeEncoder_init
    /\ rc_emodels = [i \in 1..RcNumModels |-> 1024]
    /\ rc_steps = <<>>
    /\ rc_dec = NoDecoder
    /\ rc_dmodels = [i \in 1..RcNumModels |-> 1024]
    /\ rc_decoded = <<>>

\* models[idx] = encoder.encode_bit(models[idx], bit)
RcEncodeBit(idx, bit) ==
    /\ rc_pc = "encoding"
    /\ Len(rc_steps) < RcMaxBits
    /\ LET r == encode_bit(rc_enc, rc_emodels[idx], bit) IN
       /\ rc_enc' = r.enc
       /\ IF r.enc.ok
          THEN /\ rc_emodels' = [rc_emodels EXCEPT ![idx] = r.model]
               /\ rc_steps' = Append(rc_steps, [idx |-> idx, bit |-> bit, model |-> r.model])
               /\ rc_pc' = "encoding"
          ELSE /\ rc_pc' = "raised"
               /\ UNCHANGED <<rc_emodels, rc_steps>>
    /\ UNCHANGED <<rc_dec, rc_dmodels, rc_decoded>>
    /\ UNCHANGED notRc

\* encoder.finish()
RcFinish ==
    /\ rc_pc = "encoding"
    /\ rc_enc' = finish(rc_enc)
    /\ rc_pc' = IF rc_enc'.ok THEN "finished" ELSE "raised"
    /\ UNCHANGED <<rc_emodels, rc_steps, rc_dec, rc_dmodels, rc_decoded>>
    /\ UNCHANGED notRc

\* RangeDecoder(bytes(encoder.finish()))
RcStartDecode ==
    /\ rc_pc = "finished"
    /\ rc_dec' = RangeDecoder_init(rc_enc.output)
    /\ rc_pc' = "decoding"
    /\ UNCHANGED <<rc_enc, rc_emodels, rc_steps, rc_dmodels, rc_decoded>>
    /\ UNCHANGED notRc

\* bit, models[idx] = decoder.decode_bit(models[idx]), idx being the index
\* the encoder used at this step
RcDecodeBit ==
    /\ rc_pc = "decoding"
    /\ Len(rc_decoded) < Len(rc_steps)
    /\ LET idx == rc_steps[Len(rc_decoded) + 1].idx
           r == decode_bit(rc_dec, rc_dmodels[idx])
       IN  /\ rc_dec' = r.dec
           /\ rc_dmodels' = [rc_dmodels EXCEPT ![idx] = r.model]
           /\ rc_decoded' = Append(rc_decoded, [bit |-> r.bit, model |-> r.model])
    /\ UNCHANGED <<rc_pc, rc_enc, rc_emodels, rc_steps>>
    /\ UNCHANGED notRc

RcNext ==
    \/ \E idx \in 1..RcNumModels, bit \in {0, 1} : RcEncodeBit(idx, bit)
    \/ RcFinish
    \/ RcStartDecode
    \/ RcDecodeBit

(***************************************************************************)
(* LZMACompressor.compress on one fresh instance and                       *)
(* LZMACompressor.decompress of its result on another, one packet a step.  *)
(***************************************************************************)
LzmaByteVals == {0, 65}
LzmaInputs == SeqsUpTo(LzmaByteVals, LzmaMaxLen)
LzmaInstances == {1, 2}

LzmaInit ==
    /\ lzma_inst = [i \in LzmaInstances |-> LZMACompressor_init]
    /\ c_pc = "idle"
    /\ c_self = 1
    /\ c_data = <<>>
    /\ c_pos = 0
    /\ c_state = 0
    /\ c_encoder = RangeEncoder_init
    /\ c_return = <<>>
    /\ d_pc = "idle"
    /\ d_self = 2
    /\ d_data = <<>>
    /\ d_original_size = 0
    /\ d_decoder = NoDecoder
    /\ d_result = <<>>
    /\ d_state = 0
    /\ d_return = <<>>

dVars == <<d_pc, d_self, d_data, d_original_size, d_decoder, d_result, d_state, d_return>>
cVars == <<c_pc, c_self, c_data, c_pos, c_state, c_encoder, c_return>>

\* LZMACompressor.compress(data) on instance self, up to the while loop
LzmaCompressStart(self, data) ==
    /\ c_pc = "idle"
    /\ c_self' = self
    /\ c_data' = data
    /\ IF Len(data) = 0
       THEN /\ c_return' = LZMA_MAGIC \o PackLE(0, 8)
            /\ c_pc' = "done"
            /\ UNCHANGED <<lzma_inst, c_pos, c_state, c_encoder>>
       ELSE /\ c_encoder' = RangeEncoder_init
            /\ c_pos' = 0
            /\ c_state' = 0
            /\ lzma_inst' = [lzma_inst EXCEPT
                                ![self].rep_distances = [i \in 1..NUM_REP_DISTANCES |-> 1]]
            /\ c_pc' = "running"
            /\ UNCHANGED c_return
    /\ UNCHANGED dVars
    /\ UNCHANGED notLzma

\* one iteration of "while pos < len(data)"
LzmaCompressPacket ==
    /\ c_pc = "running"
    /\ c_pos < Len(c_data)
    /\ \E r \in {CompressPacket(c_data, c_pos, c_state, lzma_inst[c_self].rep_distances,
                               [enc |-> c_encoder, models |-> lzma_inst[c_self].models])} :
           /\ c_encoder' = r.cx.enc
           /\ IF r.cx.enc.ok
              THEN /\ lzma_inst' = [lzma_inst EXCEPT
                                      ![c_self] = [models |-> r.cx.models,
                                                   rep_distances |-> r.rep_distances]]
                   /\ c_pos' = r.pos
                   /\ c_state' = r.state
                   /\ c_pc' = "running"
              ELSE /\ lzma_inst' = [lzma_inst EXCEPT ![c_self].models = r.cx.models]
                   /\ c_pc' = "raised"
                   /\ UNCHANGED <<c_pos, c_state>>
    /\ UNCHANGED <<c_self, c_data, c_return>>
    /\ UNCHANGED dVars
    /\ UNCHANGED notLzma

\* "compressed = encoder.finish(); return header + compressed"
LzmaCompressFinish ==
    /\ c_pc = "running"
    /\ c_pos >= Len(c_data)
    /\ c_encoder' = finish(c_encoder)
    /\ IF c_encoder'.ok
       THEN /\ c_return' = LZMA_MAGIC \o PackLE(Len(c_data), 8) \o c_encoder'.output
            /\ c_pc' = "done"
       ELSE /\ c_pc' = "raised"
            /\ UNCHANGED c_return
    /\ UNCHANGED <<lzma_inst, c_self, c_data, c_pos, c_state>>
    /\ UNCHANGED dVars
    /\ UNCHANGED notLzma

\* LZMACompressor.decompress(data) on instance self, data being what
\* compress returned, up to the while loop
LzmaDecompressStart(self) ==
    /\ c_pc = "done"
    /\ d_pc = "idle"
    /\ d_self' = self
    /\ d_data' = c_return
    /\ IF ~StartsWith(c_return, LZMA_MAGIC) \/ Len(c_return) < 12
       THEN /\ d_return' = <<>>
            /\ d_pc' = "done"
            /\ UNCHANGED <<lzma_inst, d_original_size, d_decoder, d_result, d_state>>
       ELSE /\ d_original_size' = UnpackLE(PySlice(c_return, 4, 12))
            /\ IF d_original_size' = 0
               THEN /\ d_return' = <<>>
                    /\ d_pc' = "done"
                    /\ UNCHANGED <<lzma_inst, d_decoder, d_result, d_state>>
               ELSE /\ d_decoder' = RangeDecoder_init(PySlice(c_return, 12, Len(c_return)))
                    /\ d_result' = <<>>
                    /\ d_state' = 0
                    /\ lzma_inst' = [lzma_inst EXCEPT
                                       ![self].rep_distances =
                                           [i \in 1..NUM_REP_DISTANCES |-> 1]]
                    /\ d_pc' = "running"
                    /\ UNCHANGED d_return
    /\ UNCHANGED cVars
    /\ UNCHANGED notLzma

\* one iteration of "while len(result) < original_size", with the break at
\* its end and the return that follows the loop
LzmaDecompressPacket ==
    /\ d_pc = "running"
    /\ \E r \in {DecompressPacket(d_result, d_state, lzma_inst[d_self].rep_distances,
                                 [dec |-> d_decoder, models |-> lzma_inst[d_self].models],
                                 d_original_size)} :
           /\ d_decoder' = r.dx.dec
           /\ lzma_inst' = [lzma_inst EXCEPT
                              ![d_self] = [models |-> r.dx.models,
                                           rep_distances |-> r.rep_distances]]
           /\ d_result' = r.result
           /\ d_state' = r.state
           /\ IF ~r.ok
              THEN d_pc' = "raised" /\ UNCHANGED d_return
              ELSE IF \/ Len(r.result) >= d_original_size
                      \/ r.dx.dec.pos >= Len(r.dx.dec.data)
              THEN /\ d_pc' = "done"
                   /\ d_return' = PySlice(r.result, 0, d_original_size)
              ELSE d_pc' = "running" /\ UNCHANGED d_return
    /\ UNCHANGED <<d_self, d_data, d_original_size>>
    /\ UNCHANGED cVars
    /\ UNCHANGED notLzma

LzmaNext ==
    \/ \E data \in LzmaInputs : LzmaCompressStart(1, data)
    \/ LzmaCompressPacket
    \/ LzmaCompressFinish
    \/ LzmaDecompressStart(2)
    \/ LzmaDecompressPacket

(***************************************************************************)
(* huffman.py.  A str is the sequence of its character codes ('0' is 48,   *)
(* '1' is 49); a dict is the sequence of its <<key, value>> pairs in       *)
(* insertion order; struct's native formats 'H' and 'I' are little-endian. *)
(***************************************************************************)
\* d[k] = v
DictPut(d, k, v) ==
    IF \E i \in 1..Len(d) : d[i][1] = k
    THEN [i \in 1..Len(d) |-> IF d[i][1] = k THEN <<k, v>> ELSE d[i]]
    ELSE Append(d, <<k, v>>)

\* k in d
DictHas(d, k) == \E i \in 1..Len(d) : d[i][1] = k

\* d[k] for k in d
DictGet(d, k) == d[CHOOSE i \in 1..Len(d) : d[i][1] = k][2]

\* d.get(k, default)
DictGetOr(d, k, default) == IF DictHas(d, k) THEN DictGet(d, k) ELSE default

\* list assignment l[i] = x, 0-based
SetAt(l, i, x) == [l EXCEPT ![i + 1] = x]

\* HuffmanNode(char, freq, left, right) as <<char, freq, left, right>>;
\* NoChar is char = None and <<>> is a None child
NoChar == -1
HuffmanNode(char, freq, left, right) == <<char, freq, left, right>>

\* HuffmanNode.__lt__
NodeLt(a, b) == a[2] < b[2]

\* Counter(data): byte -> count, keys in order of first occurrence
RECURSIVE Counter(_, _, _)
Counter(data, i, acc) ==
    IF i >= Len(data) THEN acc
    ELSE Counter(data, i + 1, DictPut(acc, At(data, i), DictGetOr(acc, At(data, i), 0) + 1))

\* heapq._siftdown(heap, startpos, pos) with newitem = heap[pos]
RECURSIVE SiftDown(_, _, _, _)
SiftDown(heap, startpos, pos, newitem) ==
    IF pos > startpos /\ NodeLt(newitem, At(heap, (pos - 1) \div 2))
    THEN SiftDown(SetAt(heap, pos, At(heap, (pos - 1) \div 2)), startpos,
                  (pos - 1) \div 2, newitem)
    ELSE SetAt(heap, pos, newitem)

\* the while loop of heapq._siftup: the smaller child is moved up until a
\* leaf is reached; <<heap, pos>>
RECURSIVE SiftUpLoop(_, _)
SiftUpLoop(heap, pos) ==
    LET childpos == 2 * pos + 1
        rightpos == childpos + 1
        smaller == IF rightpos < Len(heap)
                      /\ ~NodeLt(At(heap, childpos), At(heap, rightpos))
                   THEN rightpos ELSE childpos
    IN  IF childpos < Len(heap)
        THEN SiftUpLoop(SetAt(heap, pos, At(heap, smaller)), smaller)
        ELSE <<heap, pos>>

\* heapq._siftup(heap, pos)
SiftUp(heap, pos) ==
    With(SiftUpLoop(heap, pos), LAMBDA r : SiftDown(r[1], pos, r[2], At(heap, pos)))

\* heapq.heapify: "for i in reversed(range(n // 2)): _siftup(x, i)"
RECURSIVE HeapifyFrom(_, _)
HeapifyFrom(heap, i) == IF i < 0 THEN heap ELSE HeapifyFrom(SiftUp(heap, i), i - 1)
heapify(heap) == HeapifyFrom(heap, (Len(heap) \div 2) - 1)

\* heapq.heappop: <<item, heap>>
heappop(heap) ==
    IF Len(heap) = 1 THEN <<heap[1], <<>>>>
    ELSE <<heap[1], SiftUp(SetAt(SubSeq(heap, 1, Len(heap) - 1), 0, heap[Len(heap)]), 0)>>

\* heapq.heappush
heappush(heap, item) == SiftDown(Append(heap, item), 0, Len(heap), item)

\* "left = heappop; right = heappop; heappush(parent)" of build
MergeTwo(heap) ==
    With(heappop(heap), LAMBDA l :
    With(heappop(l[2]), LAMBDA r :
         heappush(r[2], HuffmanNode(NoChar, l[1][2] + r[1][2], l[1], r[1]))))

\* "while len(heap) > 1" of build
RECURSIVE MergeAll(_)
MergeAll(heap) == IF Len(heap) > 1 THEN MergeAll(MergeTwo(heap)) ELSE heap

\* HuffmanTree.build up to the assignment of self.root, for non-empty
\* frequencies
BuildRoot(frequencies) ==
    With(heapify([i \in 1..Len(frequencies) |->
                     HuffmanNode(frequencies[i][1], frequencies[i][2], <<>>, <<>>)]),
         LAMBDA heap :
             IF Len(heap) = 1
             THEN HuffmanNode(NoChar, heap[1][2], heap[1], <<>>)
             ELSE MergeAll(heap)[1])

\* A HuffmanTree's two tables: [codes, decode_table]
EmptyTree == [codes |-> <<>>, decode_table |-> <<>>]

\* (mutant) the right child is given the left child's bit
RECURSIVE traverse_sameBit(_, _, _)
traverse_sameBit(node, code, t) ==
    IF Len(node) = 0 THEN t
    ELSE IF node[1] # NoChar
    THEN LET c == IF Len(code) > 0 THEN code ELSE <<48>>
         IN  [codes |-> DictPut(t.codes, node[1], c),
              decode_table |-> DictPut(t.decode_table, c, node[1])]
    ELSE traverse_sameBit(node[4], Append(code, 48),
                          traverse_sameBit(node[3], Append(code, 48), t))

\* traverse(node, code) of _generate_codes, on the tables t
RECURSIVE traverse(_, _, _)
traverse(node, code, t) ==
    IF Len(node) = 0 THEN t
    ELSE IF node[1] # NoChar
    THEN LET c == IF Len(code) > 0 THEN code ELSE <<48>>
         IN  [codes |-> DictPut(t.codes, node[1], c),
              decode_table |-> DictPut(t.decode_table, c, node[1])]
    ELSE traverse(node[4], Append(code, 49), traverse(node[3], Append(code, 48), t))

\* HuffmanTree.build(frequencies) on a new tree: its tables
build(frequencies) ==
    IF Len(frequencies) = 0 THEN EmptyTree
    ELSE traverse(BuildRoot(frequencies), <<>>, EmptyTree)

\* "for char, code in self.codes.items()" of serialize
RECURSIVE SerializeCodes(_, _)
SerializeCodes(codes, i) ==
    IF i > Len(codes) THEN <<>>
    ELSE <<codes[i][1], Len(codes[i][2])>> \o codes[i][2] \o SerializeCodes(codes, i + 1)

\* HuffmanTree.serialize (an empty table gives the count 0 alone)
serialize(t) == PackLE(Len(t.codes), 2) \o SerializeCodes(t.codes, 1)

\* bytes.decode('ascii') succeeds
IsAscii(b) == \A i \in 1..Len(b) : b[i] < 128

\* "for _ in range(count)" of deserialize: [ok, codes, decode_table], ok =
\* FALSE being the UnicodeDecodeError of a code that is not ASCII
RECURSIVE DeserializeCodes(_, _, _, _)
DeserializeCodes(data, pos, count, t) ==
    IF count = 0 \/ pos + 2 > Len(data) THEN t
    ELSE LET char == At(data, pos)
             code_len == At(data, pos + 1)
             code == PySlice(data, pos + 2, pos + 2 + code_len)
         IN  IF pos + 2 + code_len > Len(data) THEN t
             ELSE IF ~IsAscii(code) THEN [t EXCEPT !.ok = FALSE]
             ELSE DeserializeCodes(data, pos + 2 + code_len, count - 1,
                                   [ok |-> TRUE,
                                    codes |-> DictPut(t.codes, char, code),
                                    decode_table |-> DictPut(t.decode_table, code, char)])

\* HuffmanTree.deserialize
deserialize(data) ==
    IF Len(data) < 2 THEN [ok |-> TRUE, codes |-> <<>>, decode_table |-> <<>>]
    ELSE DeserializeCodes(data, 2, UnpackLE(PySlice(data, 0, 2)),
                          [ok |-> TRUE, codes |-> <<>>, decode_table |-> <<>>])

\* BitStream.write_bits(code): write_bit(int(bit)) for each character
write_bits(bits, code) == bits \o [i \in 1..Len(code) |-> IF code[i] - 48 # 0 THEN 1 ELSE 0]

\* "byte = (byte << 1) | self.bits[i + j]" for j in range(8)
RECURSIVE ByteOfBits(_, _, _, _)
ByteOfBits(bits, i, j, byte) ==
    IF j >= 8 THEN byte ELSE ByteOfBits(bits, i, j + 1, 2 * byte + At(bits, i + j))

\* "for i in range(0, len(self.bits), 8)" of to_bytes
RECURSIVE PackBits(_, _)
PackBits(bits, i) ==
    IF i >= Len(bits) THEN <<>> ELSE <<ByteOfBits(bits, i, 0, 0)>> \o PackBits(bits, i + 8)

\* BitStream.to_bytes
to_bytes(bits) ==
    LET padding == (8 - (Len(bits) % 8)) % 8
    IN  <<padding>> \o PackBits(bits \o [k \in 1..padding |-> 0], 0)

\* "for j in range(7, -1, -1): bits.append((byte >> j) & 1)"
BitsOfByte(byte) == [k \in 1..8 |-> (byte \div (2 ^ (8 - k))) % 2]

\* "for i in range(1, len(data))" of from_bytes
RECURSIVE UnpackBits(_, _)
UnpackBits(data, i) ==
    IF i >= Len(data) THEN <<>> ELSE BitsOfByte(At(data, i)) \o UnpackBits(data, i + 1)

\* (mutant) the padding bits are kept
from_bytes_keepPadding(data) ==
    IF Len(data) = 0 THEN <<>> ELSE UnpackBits(data, 1)

\* BitStream.from_bytes: the bits; "bits[:-padding]" drops nothing past the
\* start of the list
from_bytes(data) ==
    IF Len(data) = 0 THEN <<>>
    ELSE With(UnpackBits(data, 1), LAMBDA bits :
              IF data[1] > 0 THEN PySlice(bits, 0, Max(0, Len(bits) - data[1])) ELSE bits)

\* "for byte in data: bitstream.write_bits(tree.codes.get(byte, '0'))"
RECURSIVE EncodeBytes(_, _, _)
EncodeBytes(codes, data, i) ==
    IF i >= Len(data) THEN <<>>
    ELSE write_bits(<<>>, DictGetOr(codes, At(data, i), <<48>>)) \o EncodeBytes(codes, data, i + 1)

\* HuffmanEncoder.encode: [tree_data, encoded_data]
HuffmanEncoder_encode(data) ==
    IF Len(data) = 0
    THEN [tree_data |-> serialize(EmptyTree), encoded_data |-> <<>>]
    ELSE With(build(Counter(data, 0, <<>>)), LAMBDA tree :
              [tree_data |-> serialize(tree),
               encoded_data |-> to_bytes(EncodeBytes(tree.codes, data, 0))])

\* "for bit in bitstream.bits" of decode
RECURSIVE DecodeBits(_, _, _, _, _)
DecodeBits(decode_table, bits, i, current_code, output) ==
    IF i > Len(bits) THEN output
    ELSE IF DictHas(decode_table, Append(current_code, 48 + bits[i]))
    THEN DecodeBits(decode_table, bits, i + 1, <<>>,
                    Append(output, DictGet(decode_table, Append(current_code, 48 + bits[i]))))
    ELSE DecodeBits(decode_table, bits, i + 1, Append(current_code, 48 + bits[i]), output)

\* HuffmanEncoder.decode: [ok, out]
HuffmanEncoder_decode(tree_data, encoded_data) ==
    With(deserialize(tree_data), LAMBDA tree :
         IF ~tree.ok THEN [ok |-> FALSE, out |-> <<>>]
         ELSE IF Len(tree.decode_table) = 0 THEN [ok |-> TRUE, out |-> <<>>]
         ELSE [ok |-> TRUE,
               out |-> DecodeBits(tree.decode_table, from_bytes(encoded_data), 1, <<>>, <<>>)])

\* compress_with_huffman
compress_with_huffman(data) ==
    With(HuffmanEncoder_encode(data), LAMBDA e :
         PackLE(Len(e.tree_data), 4) \o e.tree_data
             \o PackLE(Len(e.encoded_data), 4) \o e.encoded_data)

\* decompress_with_huffman: [ok, out]
decompress_with_huffman(data) ==
    IF Len(data) < 8 THEN [ok |-> TRUE, out |-> <<>>]
    ELSE LET tree_size == UnpackLE(PySlice(data, 0, 4))
             pos == 4 + tree_size
             encoded_size == UnpackLE(PySlice(data, pos, pos + 4))
         IN  IF pos > Len(data) THEN [ok |-> TRUE, out |-> <<>>]
             ELSE IF pos + 4 > Len(data) THEN [ok |-> TRUE, out |-> <<>>]
             ELSE IF pos + 4 + encoded_size > Len(data) THEN [ok |-> TRUE, out |-> <<>>]
             ELSE HuffmanEncoder_decode(PySlice(data, 4, pos),
                                        PySlice(data, pos + 4, pos + 4 + encoded_size))

(***************************************************************************)
(* compress_with_huffman on a buffer and decompress_with_huffman on its    *)
(* result.                                                                 *)
(***************************************************************************)
HfByteVals == {0, 1, 65}
HfInputs == SeqsUpTo(HfByteVals, HfMaxLen)

HfInit ==
    /\ hf_pc = "idle"
    /\ hf_in = <<>>
    /\ hf_packed = <<>>
    /\ hf_out = [ok |-> TRUE, out |-> <<>>]

\* compress_with_huffman(data)
HuffCompress(data) ==
    /\ hf_pc = "idle"
    /\ hf_in' = data
    /\ hf_packed' = compress_with_huffman(data)
    /\ hf_pc' = "compressed"
    /\ UNCHANGED hf_out
    /\ UNCHANGED notHf

\* decompress_with_huffman of what compress_with_huffman returned
HuffDecompress ==
    /\ hf_pc = "compressed"
    /\ hf_out' = decompress_with_huffman(hf_packed)
    /\ hf_pc' = "decompressed"
    /\ UNCHANGED <<hf_in, hf_packed>>
    /\ UNCHANGED notHf

HfNext ==
    \/ \E data \in HfInputs : HuffCompress(data)
    \/ HuffDecompress

(***************************************************************************)
(* compressor.py: TokenEncoder                                             *)
(***************************************************************************)
\* TokenEncoder.encode_tokens from token i on: [ok, out].  ok = FALSE is a
\* failed assertion or the struct.error of a value outside its field.
RECURSIVE EncodeTokensFrom(_, _, _)
EncodeTokensFrom(tokens, i, out) ==
    IF i > Len(tokens) THEN [ok |-> TRUE, out |-> out]
    ELSE IF tokens[i].type = LITERAL
    THEN EncodeTokensFrom(tokens, i + 1, out \o <<0, tokens[i].literal % 256>>)
    ELSE IF \/ tokens[i].length > MAX_MATCH
            \/ tokens[i].distance > WINDOW_SIZE
            \/ tokens[i].length - MIN_MATCH < 0
            \/ tokens[i].distance < 0
    THEN [ok |-> FALSE, out |-> out]
    ELSE EncodeTokensFrom(tokens, i + 1,
                          out \o <<1, tokens[i].length - MIN_MATCH>>
                              \o PackLE(tokens[i].distance, 2))

encode_tokens(tokens) == EncodeTokensFrom(tokens, 1, <<>>)

\* TokenEncoder.decode_tokens from position pos on: the token list.  A tag
\* without its operands ends the loop; a tag other than 0 and 1 is passed
\* over.
RECURSIVE DecodeTokensFrom(_, _, _)
DecodeTokensFrom(data, pos, tokens) ==
    IF pos >= Len(data) THEN tokens
    ELSE IF At(data, pos) = 0
    THEN IF pos + 1 >= Len(data) THEN tokens
         ELSE DecodeTokensFrom(data, pos + 2,
                               Append(tokens, Token(LITERAL, 0, 0, At(data, pos + 1))))
    ELSE IF At(data, pos) = 1
    THEN IF pos + 1 + 3 > Len(data) THEN tokens
         ELSE DecodeTokensFrom(data, pos + 4,
                  Append(tokens, Token(MATCH, At(data, pos + 1) + MIN_MATCH,
                                       UnpackLE(PySlice(data, pos + 2, pos + 4)), 0)))
    ELSE DecodeTokensFrom(data, pos + 1, tokens)

\* (mutant) the loop starts at position 1
decode_tokens_fromOne(data) == DecodeTokensFrom(data, 1, <<>>)

decode_tokens(data) == DecodeTokensFrom(data, 0, <<>>)

(***************************************************************************)
(* TokenEncoder and LZ77Compressor.decompress called with token lists and  *)
(* byte streams of any origin.                                             *)
(***************************************************************************)
\* Token(TokenType.LITERAL, literal=...) and Token(TokenType.MATCH,
\* length=..., distance=...) at the ends of their fields' ranges, a match
\* of distance 0, and a match one past the longest length
TkTokens ==
    {Token(LITERAL, 0, 0, 0), Token(LITERAL, 0, 0, 255),
     Token(MATCH, MIN_MATCH, 1, 0), Token(MATCH, MIN_MATCH, 2, 0),
     Token(MATCH, MAX_MATCH, WINDOW_SIZE, 0), Token(MATCH, MIN_MATCH, 0, 0),
     Token(MATCH, MAX_MATCH + 1, 1, 0)}
TkTokenLists == SeqsUpTo(TkTokens, TkMaxTokens)

\* the token lists given to decompress: literals and the shortest matches
TkShortLists == SeqsUpTo({t \in TkTokens : t.length <= MIN_MATCH}, TkMaxTokens)

\* byte streams: the two tags and a byte that is no tag
TkByteVals == {0, 1, 65}
TkStreams == SeqsUpTo(TkByteVals, TkMaxBytes)

TkInit ==
    /\ tk_pc = "idle"
    /\ tk_tokens = <<>>
    /\ tk_bytes = <<>>
    /\ tk_encoded = [ok |-> TRUE, out |-> <<>>]
    /\ tk_decoded = [raised |-> FALSE, tokens |-> <<>>]
    /\ tk_out = [ok |-> TRUE, out |-> <<>>]

\* TokenEncoder.encode_tokens(tokens)
TokenEncode(tokens) ==
    /\ tk_pc = "idle"
    /\ tk_tokens' = tokens
    /\ tk_encoded' = encode_tokens(tokens)
    /\ tk_pc' = "encoded"
    /\ UNCHANGED <<tk_bytes, tk_decoded, tk_out>>
    /\ UNCHANGED notTk

\* TokenEncoder.decode_tokens on the bytes encode_tokens returned
TokenDecodeEncoded ==
    /\ tk_pc = "encoded"
    /\ tk_encoded.ok
    /\ tk_bytes' = tk_encoded.out
    /\ tk_decoded' = [raised |-> FALSE, tokens |-> decode_tokens(tk_encoded.out)]
    /\ tk_pc' = "decoded"
    /\ UNCHANGED <<tk_tokens, tk_encoded, tk_out>>
    /\ UNCHANGED notTk

\* TokenEncoder.decode_tokens(data); no statement of it raises
TokenDecode(data) ==
    /\ tk_pc = "idle"
    /\ tk_bytes' = data
    /\ tk_decoded' = [raised |-> FALSE, tokens |-> decode_tokens(data)]
    /\ tk_pc' = "decoded"
    /\ UNCHANGED <<tk_tokens, tk_encoded, tk_out>>
    /\ UNCHANGED notTk

\* LZ77Compressor.decompress(tokens)
TokenDecompress(tokens) ==
    /\ tk_pc = "idle"
    /\ tk_tokens' = tokens
    /\ tk_out' = LZ77_decompress(tokens)
    /\ tk_pc' = "decompressed"
    /\ UNCHANGED <<tk_bytes, tk_encoded, tk_decoded>>
    /\ UNCHANGED notTk

TkNext ==
    \/ \E tokens \in TkTokenLists : TokenEncode(tokens)
    \/ TokenDecodeEncoded
    \/ \E data \in TkStreams : TokenDecode(data)
    \/ \E tokens \in TkShortLists : TokenDecompress(tokens)

(***************************************************************************)
(* zlib.crc32 as format.py and archiver_lzma.py use it.  The 32-bit        *)
(* register is a sequence of 32 bits, least significant first; the result  *)
(* is a wide natural.                                                      *)
(***************************************************************************)
\* the bits of a little-endian byte string of four bytes
BitsOfLE(b) == [i \in 1..32 |-> (b[((i - 1) \div 8) + 1] \div (2 ^ ((i - 1) % 8))) % 2]

\* the little-endian bytes of a 32-bit register
BytesOfBits(r) ==
    [k \in 1..4 |-> r[8 * k - 7] + 2 * r[8 * k - 6] + 4 * r[8 * k - 5] + 8 * r[8 * k - 4]
                    + 16 * r[8 * k - 3] + 32 * r[8 * k - 2] + 64 * r[8 * k - 1]
                    + 128 * r[8 * k]]

\* a ^ b, as a sequence of its own and not as a function yet to be applied
XorBits(a, b) == SubSeq([i \in 1..32 |-> (a[i] + b[i]) % 2], 1, 32)

\* the reflected CRC-32 polynomial 0xEDB88320
CrcPoly == BitsOfLE(<<32, 131, 184, 237>>)

\* n steps of "crc = (crc >> 1) ^ (POLY if crc & 1 else 0)"
RECURSIVE CrcShift(_, _)
CrcShift(r, n) ==
    IF n = 0 THEN r
    ELSE CrcShift(IF r[1] = 1 THEN XorBits(Tail(r) \o <<0>>, CrcPoly) ELSE Tail(r) \o <<0>>,
                  n - 1)

\* the register after the bytes data[i..]; each byte's eight steps are made
\* before the next byte is looked at
RECURSIVE CrcFrom(_, _, _)
CrcFrom(data, i, r) ==
    IF i >= Len(data) THEN r
    ELSE With(CrcShift(XorBits(r, BitsOfLE(<<At(data, i), 0, 0, 0>>)), 8),
              LAMBDA r8 : CrcFrom(data, i + 1, r8))

\* (mutant) the checksum of the last byte alone
calculate_crc32_lastByte(data) ==
    W_norm(BytesOfBits(XorBits(CrcFrom(data, Max(Len(data) - 1, 0), BitsOfLE(W_FFFFFFFF)),
                               BitsOfLE(W_FFFFFFFF))))

\* calculate_crc32(data) = zlib.crc32(data) & 0xffffffff
calculate_crc32(data) ==
    W_norm(BytesOfBits(XorBits(CrcFrom(data, 0, BitsOfLE(W_FFFFFFFF)), BitsOfLE(W_FFFFFFFF))))

\* struct.pack('I', n) of a wide natural below 2^32
PackW32(w) == [i \in 1..4 |-> W_digit(w, i)]

(***************************************************************************)
(* str.encode('utf-8') and bytes.decode('utf-8').  A str is the sequence   *)
(* of its code points; the file names of the model have code points below  *)
(* 0x800, which take one or two bytes.                                     *)
(***************************************************************************)
RECURSIVE utf8_encode(_)
utf8_encode(s) ==
    IF Len(s) = 0 THEN <<>>
    ELSE (IF s[1] < 128 THEN <<s[1]>>
          ELSE <<192 + (s[1] \div 64), 128 + (s[1] % 64)>>) \o utf8_encode(Tail(s))

\* [ok, str]; ok = FALSE is UnicodeDecodeError (a ValueError)
RECURSIVE utf8_decode(_, _, _)
utf8_decode(b, i, s) ==
    IF i > Len(b) THEN [ok |-> TRUE, str |-> s]
    ELSE IF b[i] < 128 THEN utf8_decode(b, i + 1, Append(s, b[i]))
    ELSE IF /\ b[i] >= 194 /\ b[i] <= 223
            /\ i + 1 <= Len(b) /\ b[i + 1] >= 128 /\ b[i + 1] <= 191
    THEN utf8_decode(b, i + 2, Append(s, (b[i] - 192) * 64 + (b[i + 1] - 128)))
    ELSE [ok |-> FALSE, str |-> s]

(***************************************************************************)
(* format.py: the LZHA container.  A FileEntry is a record; its crc32 is a *)
(* wide natural, its sizes are integers.  A result's err is "none" or the  *)
(* exception raised ("ValueError" or "struct.error").                      *)
(***************************************************************************)
ARCHIVE_MAGIC == <<76, 90, 72, 65>>     \* b'LZHA'
ARCHIVE_VERSION == 1

FileEntry(filename, original_size, compressed_size, compressed_data, crc32) ==
    [filename |-> filename, original_size |-> original_size,
     compressed_size |-> compressed_size, compressed_data |-> compressed_data,
     crc32 |-> crc32]

\* ArchiveHeader().serialize()
ArchiveHeader_serialize ==
    ARCHIVE_MAGIC \o <<ARCHIVE_VERSION>> \o <<0>> \o [i \in 1..10 |-> 0]

\* (mutant) the version byte is not looked at
ArchiveHeader_deserialize_anyVersion(data) ==
    IF Len(data) < 16 THEN "ValueError"
    ELSE IF PySlice(data, 0, 4) # ARCHIVE_MAGIC THEN "ValueError"
    ELSE "none"

\* ArchiveHeader.deserialize(data): "none" or "ValueError"
ArchiveHeader_deserialize(data) ==
    IF Len(data) < 16 THEN "ValueError"
    ELSE IF PySlice(data, 0, 4) # ARCHIVE_MAGIC THEN "ValueError"
    ELSE IF At(data, 4) # ARCHIVE_VERSION THEN "ValueError"
    ELSE "none"

\* (mutant) the sizes are written in four bytes
LZHA_write_entry_short(entry) ==
    PackLE(Len(utf8_encode(entry.filename)), 2) \o utf8_encode(entry.filename)
        \o PackLE(entry.original_size, 4) \o PackLE(entry.compressed_size, 4)
        \o PackW32(entry.crc32) \o entry.compressed_data

\* ArchiveFormat._write_entry: the bytes written
LZHA_write_entry(entry) ==
    PackLE(Len(utf8_encode(entry.filename)), 2) \o utf8_encode(entry.filename)
        \o PackLE(entry.original_size, 8) \o PackLE(entry.compressed_size, 8)
        \o PackW32(entry.crc32) \o entry.compressed_data

RECURSIVE LZHA_write_entries(_, _)
LZHA_write_entries(entries, i) ==
    IF i > Len(entries) THEN <<>>
    ELSE LZHA_write_entry(entries[i]) \o LZHA_write_entries(entries, i + 1)

\* format.ArchiveFormat.create_archive
LZHA_create_archive(entries) ==
    ArchiveHeader_serialize \o PackLE(Len(entries), 4) \o LZHA_write_entries(entries, 1)

\* the part of _read_entry after the file name: [err, entry, pos].  The
\* guard asks for 16 bytes and 20 are read: struct.unpack('I', ...) raises
\* struct.error on fewer than four bytes.
LZHA_read_entry_meta(data, pos, filename) ==
    IF pos + 16 > Len(data) THEN [err |-> "ValueError", entry |-> <<>>, pos |-> pos]
    ELSE IF pos + 20 > Len(data) THEN [err |-> "struct.error", entry |-> <<>>, pos |-> pos]
    ELSE LET original_size == UnpackLE(PySlice(data, pos, pos + 8))
             compressed_size == UnpackLE(PySlice(data, pos + 8, pos + 16))
             crc32 == W_norm(PySlice(data, pos + 16, pos + 20))
         IN  IF pos + 20 + compressed_size > Len(data)
             THEN [err |-> "ValueError", entry |-> <<>>, pos |-> pos]
             ELSE [err |-> "none",
                   entry |-> FileEntry(filename, original_size, compressed_size,
                                       PySlice(data, pos + 20, pos + 20 + compressed_size),
                                       crc32),
                   pos |-> pos + 20 + compressed_size]

\* format.ArchiveFormat._read_entry: [err, entry, pos]
LZHA_read_entry(data, pos) ==
    IF pos + 2 > Len(data) THEN [err |-> "ValueError", entry |-> <<>>, pos |-> pos]
    ELSE LET filename_len == UnpackLE(PySlice(data, pos, pos + 2))
         IN  IF pos + 2 + filename_len > Len(data)
             THEN [err |-> "ValueError", entry |-> <<>>, pos |-> pos]
             ELSE With(utf8_decode(PySlice(data, pos + 2, pos + 2 + filename_len), 1, <<>>),
                       LAMBDA fn :
                           IF ~fn.ok THEN [err |-> "ValueError", entry |-> <<>>, pos |-> pos]
                           ELSE LZHA_read_entry_meta(data, pos + 2 + filename_len, fn.str))

\* "for _ in range(entry_count)" of read_archive: [err, entries]
RECURSIVE LZHA_read_entries(_, _, _, _)
LZHA_read_entries(data, pos, n, entries) ==
    IF n = 0 THEN [err |-> "none", entries |-> entries]
    ELSE With(LZHA_read_entry(data, pos), LAMBDA r :
              IF r.err # "none" THEN [err |-> r.err, entries |-> <<>>]
              ELSE LZHA_read_entries(data, r.pos, n - 1, Append(entries, r.entry)))

\* format.ArchiveFormat.read_archive: [err, entries]
LZHA_read_archive(data) ==
    IF Len(data) < 16 THEN [err |-> "ValueError", entries |-> <<>>]
    ELSE IF ArchiveHeader_deserialize(PySlice(data, 0, 16)) # "none"
    THEN [err |-> "ValueError", entries |-> <<>>]
    ELSE IF 16 + 4 > Len(data) THEN [err |-> "ValueError", entries |-> <<>>]
    ELSE LZHA_read_entries(data, 20, UnpackLE(PySlice(data, 16, 20)), <<>>)

(***************************************************************************)
(* archiver_lzma.py: the LZMA container                                    *)
(***************************************************************************)
LZMA_VERSION == 1

ArchiveEntry(filename, original_size, compressed_size, crc32, data) ==
    [filename |-> filename, original_size |-> original_size,
     compressed_size |-> compressed_size, crc32 |-> crc32, data |-> data]

RECURSIVE LZMA_write_entries(_, _)
LZMA_write_entries(entries, i) ==
    IF i > Len(entries) THEN <<>>
    ELSE PackLE(Len(utf8_encode(entries[i].filename)), 2)
             \o utf8_encode(entries[i].filename)
             \o PackLE(entries[i].original_size, 8)
             \o PackLE(entries[i].compressed_size, 8)
             \o PackW32(entries[i].crc32)
             \o entries[i].data
             \o LZMA_write_entries(entries, i + 1)

\* archiver_lzma.ArchiveFormat.write_archive: the content of output_path
LZMA_write_archive(entries) ==
    LZMA_MAGIC \o PackLE(LZMA_VERSION, 4) \o PackLE(Len(entries), 4)
        \o LZMA_write_entries(entries, 1)

\* struct.unpack_from(fmt, data, pos) has its size bytes to read
CanUnpackFrom(data, pos, size) == pos + size <= Len(data)

\* one iteration of "for _ in range(num_files)": [err, entry, pos].  The
\* two slices clip to the buffer; the unpack_from calls raise struct.error.
LZMA_read_entry(data, pos) ==
    IF ~CanUnpackFrom(data, pos, 2) THEN [err |-> "struct.error", entry |-> <<>>, pos |-> pos]
    ELSE LET filename_len == UnpackLE(PySlice(data, pos, pos + 2))
             p == pos + 2 + filename_len
         IN  With(utf8_decode(PySlice(data, pos + 2, p), 1, <<>>), LAMBDA fn :
                  IF ~fn.ok THEN [err |-> "ValueError", entry |-> <<>>, pos |-> pos]
                  ELSE IF ~CanUnpackFrom(data, p, 8) \/ ~CanUnpackFrom(data, p + 8, 8)
                          \/ ~CanUnpackFrom(data, p + 16, 4)
                  THEN [err |-> "struct.error", entry |-> <<>>, pos |-> pos]
                  ELSE LET compressed_size == UnpackLE(PySlice(data, p + 8, p + 16))
                       IN  [err |-> "none",
                            entry |-> ArchiveEntry(fn.str,
                                          UnpackLE(PySlice(data, p, p + 8)),
                                          compressed_size,
                                          W_norm(PySlice(data, p + 16, p + 20)),
                                          PySlice(data, p + 20, p + 20 + compressed_size)),
                            pos |-> p + 20 + compressed_size])

RECURSIVE LZMA_read_entries(_, _, _, _)
LZMA_read_entries(data, pos, n, entries) ==
    IF n = 0 THEN [err |-> "none", entries |-> entries]
    ELSE With(LZMA_read_entry(data, pos), LAMBDA r :
              IF r.err # "none" THEN [err |-> r.err, entries |-> <<>>]
              ELSE LZMA_read_entries(data, r.pos, n - 1, Append(entries, r.entry)))

\* archiver_lzma.ArchiveFormat.read_archive: [err, entries]
LZMA_read_archive(data) ==
    IF ~StartsWith(data, LZMA_MAGIC) THEN [err |-> "ValueError", entries |-> <<>>]
    ELSE IF ~CanUnpackFrom(data, 4, 4) THEN [err |-> "struct.error", entries |-> <<>>]
    ELSE IF UnpackLE(PySlice(data, 4, 8)) # LZMA_VERSION
    THEN [err |-> "ValueError", entries |-> <<>>]
    ELSE IF ~CanUnpackFrom(data, 8, 4) THEN [err |-> "struct.error", entries |-> <<>>]
    ELSE LZMA_read_entries(data, 12, UnpackLE(PySlice(data, 8, 12)), <<>>)

(***************************************************************************)
(* A list of entries serialized by a container and read back.              *)
(***************************************************************************)
FmtKinds == {"LZHA", "LZMA"}
FmtNames == {<<97>>, <<233, 98>>}                \* "a", "éb"
FmtPayloads == {<<>>, <<1, 2>>}
FmtSizes == {0, 300}
FmtCrcs == {<<>>, W_FFFFFFFF}

\* entries whose compressed_size is the payload length
FmtEntries(kind) ==
    {IF kind = "LZHA" THEN FileEntry(n, o, Len(p), p, c) ELSE ArchiveEntry(n, o, Len(p), c, p) :
        n \in FmtNames, o \in FmtSizes, p \in FmtPayloads, c \in FmtCrcs}

FmtInit ==
    /\ fmt_pc = "idle"
    /\ fmt_kind = "LZHA"
    /\ fmt_entries = <<>>
    /\ fmt_bytes = <<>>
    /\ fmt_read = [err |-> "none", entries |-> <<>>]

\* create_archive(entries) / write_archive(entries, output_path)
FmtWrite(kind, entries) ==
    /\ fmt_pc = "idle"
    /\ fmt_kind' = kind
    /\ fmt_entries' = entries
    /\ fmt_bytes' = IF kind = "LZHA" THEN LZHA_create_archive(entries)
                    ELSE LZMA_write_archive(entries)
    /\ fmt_pc' = "written"
    /\ UNCHANGED fmt_read
    /\ UNCHANGED notFmt

\* read_archive of the bytes written
FmtRead ==
    /\ fmt_pc = "written"
    /\ fmt_read' = IF fmt_kind = "LZHA" THEN LZHA_read_archive(fmt_bytes)
                   ELSE LZMA_read_archive(fmt_bytes)
    /\ fmt_pc' = "read"
    /\ UNCHANGED <<fmt_kind, fmt_entries, fmt_bytes>>
    /\ UNCHANGED notFmt

FmtNext ==
    \/ \E kind \in FmtKinds : \E entries \in SeqsUpTo(FmtEntries(kind), FmtMaxEntries) :
           FmtWrite(kind, entries)
    \/ FmtRead

(***************************************************************************)
(* lzma_compressor.py: compress_lzma and decompress_lzma, which frame the  *)
(* output of the standard module lzma (imported as pylzma).                *)
(***************************************************************************)
XZ_HEADER == <<253, 55, 122, 88, 90, 0>>    \* the XZ stream's magic bytes
XZ_FOOTER == <<89, 90>>                     \* the XZ stream's closing magic

\* pylzma.compress(data, preset): the library's stream is taken as the
\* bytes between the stream's header and footer.  The preset changes the
\* coding of the stream and not what decompress returns; it is left out.
pylzma_compress(data) == XZ_HEADER \o data \o XZ_FOOTER

\* pylzma.decompress(payload): [ok, out]; ok = FALSE is LZMAError
pylzma_decompress(payload) ==
    IF /\ Len(payload) >= Len(XZ_HEADER) + Len(XZ_FOOTER)
       /\ StartsWith(payload, XZ_HEADER)
       /\ PySlice(payload, Len(payload) - Len(XZ_FOOTER), Len(payload)) = XZ_FOOTER
    THEN [ok |-> TRUE,
          out |-> PySlice(payload, Len(XZ_HEADER), Len(payload) - Len(XZ_FOOTER))]
    ELSE [ok |-> FALSE, out |-> <<>>]

\* compress_lzma(data, level)
compress_lzma(data) ==
    IF Len(data) = 0 THEN LZMA_MAGIC \o PackLE(0, 8)
    ELSE LZMA_MAGIC \o PackLE(Len(data), 8) \o pylzma_compress(data)

\* the part of decompress_lzma after original_size has been unpacked
decompress_lzma_payload(data, original_size) ==
    IF original_size = 0 THEN <<>>
    ELSE With(pylzma_decompress(PySlice(data, 12, Len(data))), LAMBDA r :
              IF ~r.ok THEN <<>>
              ELSE IF Len(r.out) < original_size THEN <<>>
              ELSE PySlice(r.out, 0, original_size))

\* decompress_lzma(data): the bytes returned; it raises nothing
decompress_lzma(data) ==
    IF ~StartsWith(data, LZMA_MAGIC) \/ Len(data) < 12 THEN <<>>
    ELSE decompress_lzma_payload(data, UnpackLE(PySlice(data, 4, 12)))

(***************************************************************************)
(* The file system the archivers work on.  An input path is a directory    *)
(* and a name; a file's content is its bytes, NoFile where none exists.    *)
(* The output directory is a function from the names of the files written  *)
(* into it to their bytes.                                                 *)
(***************************************************************************)
NoFile == <<-1>>

\* os.path.isfile(file_path)
isfile(files, file_path) == files[file_path] # NoFile

\* Path(file_path).name
basename(file_path) == file_path.name

\* "with open(os.path.join(output_dir, filename), 'wb') as f: f.write(data)"
WriteFile(outdir, filename, data) ==
    [n \in DOMAIN outdir \cup {filename} |-> IF n = filename THEN data ELSE outdir[n]]

(***************************************************************************)
(* archiver.py: the LZHA Archiver.  compressor is the finder of            *)
(* self.compressor, [data, hash_chains], which every compress_file of the  *)
(* instance updates.                                                       *)
(***************************************************************************)
\* (mutant) only the length is compared
verify_integrity_lengthOnly(entry, decompressed_data) ==
    Len(decompressed_data) = entry.original_size

\* format.verify_integrity
verify_integrity(entry, decompressed_data) ==
    IF Len(decompressed_data) # entry.original_size THEN FALSE
    ELSE calculate_crc32(decompressed_data) = entry.crc32

\* the entry compress_file builds from the encoded tokens
LZHA_entry_of(use_huffman, filename, data, lz77_compressed) ==
    With(IF use_huffman THEN compress_with_huffman(lz77_compressed) ELSE lz77_compressed,
         LAMBDA final_compressed :
             FileEntry(filename, Len(data), Len(final_compressed), final_compressed,
                       calculate_crc32(data)))

\* Archiver.compress_file(file_path) where the file holds data:
\* [ok, compressor, entry]; ok = FALSE when encode_tokens raises
LZHA_compress_file(compressor, use_huffman, file_path, data) ==
    With(LZ77Compressor_compress(compressor, data), LAMBDA c :
         With(encode_tokens(c.tokens), LAMBDA t :
              [ok |-> t.ok, compressor |-> c.compressor,
               entry |-> LZHA_entry_of(use_huffman, basename(file_path), data, t.out)]))

\* (mutant) the payload is taken as token bytes whatever use_huffman is
LZHA_decompress_noHuffman(use_huffman, entry) ==
    With(LZ77_decompress(decode_tokens(entry.compressed_data)), LAMBDA d :
         [raised |-> IF d.ok THEN "none" ELSE "IndexError", out |-> d.out])

\* the first three statements of decompress_file: [raised, out].
\* decompress_with_huffman raises UnicodeDecodeError on a code table that
\* is not ASCII, LZ77Compressor.decompress raises IndexError.
LZHA_decompress(use_huffman, entry) ==
    With(IF use_huffman THEN decompress_with_huffman(entry.compressed_data)
         ELSE [ok |-> TRUE, out |-> entry.compressed_data],
         LAMBDA h :
             IF ~h.ok THEN [raised |-> "UnicodeDecodeError", out |-> <<>>]
             ELSE With(LZ77_decompress(decode_tokens(h.out)), LAMBDA d :
                       [raised |-> IF d.ok THEN "none" ELSE "IndexError", out |-> d.out]))

\* Archiver.decompress_file(entry, output_dir): [raised, success, outdir]
LZHA_decompress_file(use_huffman, entry, outdir) ==
    With(LZHA_decompress(use_huffman, entry), LAMBDA d :
         IF d.raised # "none" THEN [raised |-> d.raised, success |-> FALSE, outdir |-> outdir]
         ELSE IF ~verify_integrity(entry, d.out)
         THEN [raised |-> "none", success |-> FALSE, outdir |-> outdir]
         ELSE [raised |-> "none", success |-> TRUE,
               outdir |-> WriteFile(outdir, entry.filename, d.out)])

\* "for file_path in file_paths" of create_archive: [raised, compressor, entries]
RECURSIVE LZHA_create_entries(_, _, _, _, _, _)
LZHA_create_entries(files, use_huffman, file_paths, i, compressor, entries) ==
    IF i > Len(file_paths)
    THEN [raised |-> "none", compressor |-> compressor, entries |-> entries]
    ELSE IF ~isfile(files, file_paths[i])
    THEN LZHA_create_entries(files, use_huffman, file_paths, i + 1, compressor, entries)
    ELSE With(LZHA_compress_file(compressor, use_huffman, file_paths[i], files[file_paths[i]]),
              LAMBDA r :
                  IF ~r.ok
                  THEN [raised |-> "AssertionError", compressor |-> r.compressor,
                        entries |-> entries]
                  ELSE LZHA_create_entries(files, use_huffman, file_paths, i + 1,
                                           r.compressor, Append(entries, r.entry)))

\* (mutant) the entries before the first one of that filename are kept
WithoutName_upTo(entries, filename) ==
    IF \A i \in 1..Len(entries) : entries[i].filename # filename THEN entries
    ELSE SubSeq(entries, 1,
                (CHOOSE i \in 1..Len(entries) :
                     /\ entries[i].filename = filename
                     /\ \A j \in 1..(i - 1) : entries[j].filename # filename) - 1)

\* "existing_entries = [e for e in existing_entries if e.filename != filename]"
WithoutName(entries, filename) == SelectSeq(entries, LAMBDA e : e.filename # filename)

\* "for file_path in file_paths" of add_files: [raised, compressor, entries]
RECURSIVE LZHA_add_entries(_, _, _, _, _, _)
LZHA_add_entries(files, use_huffman, file_paths, i, compressor, existing_entries) ==
    IF i > Len(file_paths)
    THEN [raised |-> "none", compressor |-> compressor, entries |-> existing_entries]
    ELSE IF ~isfile(files, file_paths[i])
    THEN LZHA_add_entries(files, use_huffman, file_paths, i + 1, compressor,
                          existing_entries)
    ELSE With(LZHA_compress_file(compressor, use_huffman, file_paths[i], files[file_paths[i]]),
              LAMBDA r :
                  IF ~r.ok
                  THEN [raised |-> "AssertionError", compressor |-> r.compressor,
                        entries |-> existing_entries]
                  ELSE LZHA_add_entries(files, use_huffman, file_paths, i + 1, r.compressor,
                           Append(WithoutName(existing_entries, basename(file_paths[i])),
                                  r.entry)))

\* "for entry in entries" of extract_archive: [raised, outdir, log]; log
\* holds what was printed after each entry's name, "OK" or "FAILED"
RECURSIVE LZHA_extract_entries(_, _, _, _, _)
LZHA_extract_entries(use_huffman, entries, i, outdir, log) ==
    IF i > Len(entries) THEN [raised |-> "none", outdir |-> outdir, log |-> log]
    ELSE With(LZHA_decompress_file(use_huffman, entries[i], outdir), LAMBDA r :
              IF r.raised # "none" THEN [raised |-> r.raised, outdir |-> outdir, log |-> log]
              ELSE LZHA_extract_entries(use_huffman, entries, i + 1, r.outdir,
                       Append(log, IF r.success THEN "OK" ELSE "FAILED")))

(***************************************************************************)
(* archiver_lzma.py: the LZMA Archiver                                     *)
(***************************************************************************)
\* the entry create_archive and add_files build for a file holding data
LZMA_entry_of(file_path, data) ==
    With(compress_lzma(data), LAMBDA compressed_data :
         ArchiveEntry(basename(file_path), Len(data), Len(compressed_data),
                      calculate_crc32(data), compressed_data))

\* "for file_path in input_files" of create_archive and of add_files: the
\* entries list, which both loops only append to
RECURSIVE LZMA_append_entries(_, _, _, _)
LZMA_append_entries(files, input_files, i, entries) ==
    IF i > Len(input_files) THEN entries
    ELSE IF ~isfile(files, input_files[i])
    THEN LZMA_append_entries(files, input_files, i + 1, entries)
    ELSE With(LZMA_entry_of(input_files[i], files[input_files[i]]), LAMBDA entry :
              LZMA_append_entries(files, input_files, i + 1, Append(entries, entry)))

\* one iteration of "for entry in entries" of extract_archive
LZMA_extract_entry(entry, original_data, outdir, log) ==
    IF calculate_crc32(original_data) # entry.crc32
    THEN [outdir |-> outdir, log |-> Append(log, "FAILED")]
    ELSE [outdir |-> WriteFile(outdir, entry.filename, original_data),
          log |-> Append(log, "OK")]

\* "for entry in entries" of extract_archive: [outdir, log]
RECURSIVE LZMA_extract_entries(_, _, _, _)
LZMA_extract_entries(entries, i, outdir, log) ==
    IF i > Len(entries) THEN [outdir |-> outdir, log |-> log]
    ELSE With(LZMA_extract_entry(entries[i], decompress_lzma(entries[i].data), outdir, log),
              LAMBDA r : LZMA_extract_entries(entries, i + 1, r.outdir, r.log))

(***************************************************************************)
(* One Archiver of either module at work on a file system: an archive is   *)
(* created, or found at the archive path as somebody else left it; it may  *)
(* be rewritten once, by a second create_archive or by add_files; it is    *)
(* extracted into an empty directory.                                      *)
(***************************************************************************)
ArPaths == {[dir |-> "d1", name |-> <<97>>],      \* d1/a
            [dir |-> "d1", name |-> <<98>>],      \* d1/b
            [dir |-> "d2", name |-> <<97>>]}      \* d2/a
ArContents == {<<>>, <<66, 65, 65, 65, 65>>}

\* the lists of the model: no element twice
Injective(s) == \A i, j \in 1..Len(s) : i # j => s[i] # s[j]
ArPathLists == {s \in SeqsUpTo(ArPaths, ArMaxPaths) : Injective(s)}

\* the token bytes of an archive written by somebody else: the literals
\* A B; a literal tag without its byte; a match of distance 0; a literal
\* and a match of distance 2, beyond the one byte of output
TokensAB == <<0, 65, 0, 66>>
TokensTruncated == <<0>>
TokensDistance0 == <<1, 0, 0, 0>>
TokensDistance2 == <<0, 65, 1, 0, 2, 0>>

\* a FileEntry of payload tokens that declares the size of data and crc32;
\* the last one declares 5 bytes, and holds 2 of the CRC it declares
LZHA_crafted(use_huffman, filename, tokens, data, crc32) ==
    With(IF use_huffman THEN compress_with_huffman(tokens) ELSE tokens, LAMBDA payload :
         FileEntry(filename, Len(data), Len(payload), payload, crc32))

LZHA_crafted_entries(use_huffman) ==
    {LZHA_crafted(use_huffman, <<103>>, TokensAB, <<65, 66>>, calculate_crc32(<<65, 66>>)),
     LZHA_crafted(use_huffman, <<99>>, TokensAB, <<65, 66>>, calculate_crc32(<<>>)),
     LZHA_crafted(use_huffman, <<116>>, TokensTruncated, <<>>, calculate_crc32(<<>>)),
     LZHA_crafted(use_huffman, <<122>>, TokensDistance0, <<65, 65, 65>>,
                  calculate_crc32(<<65, 65, 65>>)),
     LZHA_crafted(use_huffman, <<100>>, TokensDistance2, <<65, 65, 65, 65>>,
                  calculate_crc32(<<65, 65, 65, 65>>)),
     LZHA_crafted(use_huffman, <<115>>, TokensAB, <<65, 66, 0, 0, 0>>,
                  calculate_crc32(<<65, 66>>))}

\* ArchiveEntry values: a good one, one of another CRC, one whose stream is
\* not what the library wrote, one that declares 5 bytes and holds 2
LZMA_crafted_entries ==
    {ArchiveEntry(<<103>>, 2, Len(compress_lzma(<<65, 66>>)),
                  calculate_crc32(<<65, 66>>), compress_lzma(<<65, 66>>)),
     ArchiveEntry(<<99>>, 2, Len(compress_lzma(<<65, 66>>)),
                  calculate_crc32(<<66>>), compress_lzma(<<65, 66>>)),
     ArchiveEntry(<<112>>, 2, Len(LZMA_MAGIC \o PackLE(2, 8) \o <<1, 2, 3>>),
                  calculate_crc32(<<65, 66>>), LZMA_MAGIC \o PackLE(2, 8) \o <<1, 2, 3>>),
     ArchiveEntry(<<115>>, 5, Len(compress_lzma(<<65, 66>>)),
                  calculate_crc32(<<65, 66>>), compress_lzma(<<65, 66>>))}

ArCrafted(kind, use_huffman) ==
    IF kind = "LZHA" THEN LZHA_crafted_entries(use_huffman) ELSE LZMA_crafted_entries

ArCraftedLists(kind, use_huffman) ==
    {s \in SeqsUpTo(ArCrafted(kind, use_huffman), ArMaxPaths) : Injective(s)}

\* what may have happened to an archive of one sound entry on its way: a
\* byte of the magic or the version changed, an entry count of 2, or the
\* file cut short inside the part named
ArDamages == {"bad magic", "bad version", "bad count", "cut header", "cut count",
              "cut name length", "cut name", "cut metadata", "cut crc32", "cut payload"}

\* s with the byte at position i replaced by b
SetByte(s, i, b) == [k \in 1..Len(s) |-> IF k = i + 1 THEN b ELSE s[k]]

\* the archive of the one entry named "g" of the crafted ones
ArSound(kind, use_huffman) ==
    IF kind = "LZHA"
    THEN LZHA_create_archive(<<LZHA_crafted(use_huffman, <<103>>, TokensAB, <<65, 66>>,
                                            calculate_crc32(<<65, 66>>))>>)
    ELSE LZMA_write_archive(<<ArchiveEntry(<<103>>, 2, Len(compress_lzma(<<65, 66>>)),
                                           calculate_crc32(<<65, 66>>),
                                           compress_lzma(<<65, 66>>))>>)

\* the damaged archive; first is where the first entry starts, after the
\* 16-byte header and the count (LZHA) or after magic, version and count
\* (LZMA), and the entry's name is one byte long
ArDamaged(kind, whole, damage) ==
    LET first == IF kind = "LZHA" THEN 20 ELSE 12 IN
    CASE damage = "bad magic" -> SetByte(whole, 3, 88)
      [] damage = "bad version" -> SetByte(whole, 4, 2)
      [] damage = "bad count" -> SetByte(whole, first - 4, 2)
      [] damage = "cut header" -> SubSeq(whole, 1, first - 5)
      [] damage = "cut count" -> SubSeq(whole, 1, first - 1)
      [] damage = "cut name length" -> SubSeq(whole, 1, first + 1)
      [] damage = "cut name" -> SubSeq(whole, 1, first + 2)
      [] damage = "cut metadata" -> SubSeq(whole, 1, first + 3 + 15)
      [] damage = "cut crc32" -> SubSeq(whole, 1, first + 3 + 19)
      [] damage = "cut payload" -> SubSeq(whole, 1, Len(whole) - 1)

ArInit ==
    /\ ar_kind = "none"
    /\ ar_use_huffman = FALSE
    /\ ar_compressor = [data |-> <<>>, hash_chains |-> <<>>]
    /\ ar_files = [p \in ArPaths |-> NoFile]
    /\ ar_archive = NoFile
    /\ ar_before = NoFile
    /\ ar_calls = <<>>
    /\ ar_paths = <<>>
    /\ ar_outdir = <<>>
    /\ ar_log = <<>>
    /\ ar_raised = "none"

\* the caller finds the input files as they are and constructs
\* archiver.Archiver(use_huffman)
Archiver_init(files, use_huffman) ==
    /\ ar_kind = "none"
    /\ ar_kind' = "LZHA"
    /\ ar_use_huffman' = use_huffman
    /\ ar_compressor' = [data |-> <<>>, hash_chains |-> <<>>]
    /\ ar_files' = files
    /\ UNCHANGED <<ar_archive, ar_before, ar_calls, ar_paths, ar_outdir, ar_log, ar_raised>>
    /\ UNCHANGED notAr

\* the caller finds the input files as they are and constructs
\* archiver_lzma.Archiver()
LzmaArchiver_init(files) ==
    /\ ar_kind = "none"
    /\ ar_kind' = "LZMA"
    /\ ar_files' = files
    /\ UNCHANGED <<ar_use_huffman, ar_compressor, ar_archive, ar_before, ar_calls, ar_paths,
                   ar_outdir, ar_log, ar_raised>>
    /\ UNCHANGED notAr

\* the archive path may be written anew while it has been written at most
\* once and nothing has been extracted
ArMayRewrite == ar_calls \in {<<>>, <<"create">>}

\* somebody else leaves an archive at the archive path
ArPlant(kind, use_huffman, entries) ==
    /\ ar_kind = kind
    /\ ar_use_huffman = use_huffman
    /\ ar_calls = <<>>
    /\ ar_archive' = IF kind = "LZHA" THEN LZHA_create_archive(entries)
                     ELSE LZMA_write_archive(entries)
    /\ ar_before' = ar_archive
    /\ ar_calls' = <<"plant">>
    /\ UNCHANGED <<ar_kind, ar_use_huffman, ar_compressor, ar_files, ar_paths, ar_outdir,
                   ar_log, ar_raised>>
    /\ UNCHANGED notAr

\* somebody else leaves a damaged archive at the archive path
ArPlantDamaged(damage) ==
    /\ ar_kind # "none"
    /\ ar_calls = <<>>
    /\ ar_archive' = ArDamaged(ar_kind, ArSound(ar_kind, ar_use_huffman), damage)
    /\ ar_before' = ar_archive
    /\ ar_calls' = <<damage>>
    /\ UNCHANGED <<ar_kind, ar_use_huffman, ar_compressor, ar_files, ar_paths, ar_outdir,
                   ar_log, ar_raised>>
    /\ UNCHANGED notAr

\* add_files is called on an archive the Archiver created, or on a
\* damaged one
ArMayAdd == ar_calls = <<"create">> \/ (Len(ar_calls) = 1 /\ ar_calls[1] \in ArDamages)

\* extract_archive is called once, and list_archive last
ArMayExtract ==
    /\ Len(ar_calls) > 0
    /\ ar_calls[Len(ar_calls)] \notin {"extract", "list"}

\* archiver.Archiver.create_archive(file_paths, archive_path)
Archiver_create_archive(file_paths) ==
    /\ ar_kind = "LZHA"
    /\ ArMayRewrite
    /\ \E r \in {LZHA_create_entries(ar_files, ar_use_huffman, file_paths, 1,
                                     ar_compressor, <<>>)} :
           /\ ar_compressor' = r.compressor
           /\ ar_raised' = r.raised
           /\ ar_archive' = IF r.raised # "none" \/ Len(r.entries) = 0 THEN ar_archive
                            ELSE LZHA_create_archive(r.entries)
    /\ ar_before' = ar_archive
    /\ ar_calls' = Append(ar_calls, "create")
    /\ ar_paths' = file_paths
    /\ UNCHANGED <<ar_kind, ar_use_huffman, ar_files, ar_outdir, ar_log>>
    /\ UNCHANGED notAr

\* archiver.Archiver.add_files(archive_path, file_paths)
Archiver_add_files(file_paths) ==
    /\ ar_kind = "LZHA"
    /\ ArMayAdd
    /\ IF ar_archive = NoFile
       THEN UNCHANGED <<ar_compressor, ar_archive, ar_raised>>
       ELSE \E existing \in {LZHA_read_archive(ar_archive)} :
                IF existing.err = "ValueError"
                THEN UNCHANGED <<ar_compressor, ar_archive, ar_raised>>
                ELSE IF existing.err # "none"
                THEN /\ ar_raised' = existing.err
                     /\ UNCHANGED <<ar_compressor, ar_archive>>
                ELSE \E r \in {LZHA_add_entries(ar_files, ar_use_huffman, file_paths, 1,
                                                ar_compressor, existing.entries)} :
                         /\ ar_compressor' = r.compressor
                         /\ ar_raised' = r.raised
                         /\ ar_archive' = IF r.raised # "none" THEN ar_archive
                                          ELSE LZHA_create_archive(r.entries)
    /\ ar_before' = ar_archive
    /\ ar_calls' = Append(ar_calls, "add")
    /\ ar_paths' = file_paths
    /\ UNCHANGED <<ar_kind, ar_use_huffman, ar_files, ar_outdir, ar_log>>
    /\ UNCHANGED notAr

\* archiver.Archiver.extract_archive(archive_path, output_dir)
Archiver_extract_archive ==
    /\ ar_kind = "LZHA"
    /\ ArMayExtract
    /\ IF ar_archive = NoFile
       THEN UNCHANGED <<ar_outdir, ar_log, ar_raised>>
       ELSE \E read \in {LZHA_read_archive(ar_archive)} :
                IF read.err = "ValueError"
                THEN UNCHANGED <<ar_outdir, ar_log, ar_raised>>
                ELSE IF read.err # "none"
                THEN /\ ar_raised' = read.err
                     /\ UNCHANGED <<ar_outdir, ar_log>>
                ELSE \E r \in {LZHA_extract_entries(ar_use_huffman, read.entries, 1,
                                                    ar_outdir, <<>>)} :
                         /\ ar_outdir' = r.outdir
                         /\ ar_log' = r.log
                         /\ ar_raised' = r.raised
    /\ ar_before' = ar_archive
    /\ ar_calls' = Append(ar_calls, "extract")
    /\ UNCHANGED <<ar_kind, ar_use_huffman, ar_compressor, ar_files, ar_archive, ar_paths>>
    /\ UNCHANGED notAr

\* archiver.Archiver.list_archive(archive_path): it prints, and raises what
\* read_archive raises other than ValueError
Archiver_list_archive ==
    /\ ar_kind = "LZHA"
    /\ Len(ar_calls) = 1
    /\ ar_raised' = IF ar_archive = NoFile THEN "none"
                    ELSE IF LZHA_read_archive(ar_archive).err = "ValueError" THEN "none"
                    ELSE LZHA_read_archive(ar_archive).err
    /\ ar_before' = ar_archive
    /\ ar_calls' = Append(ar_calls, "list")
    /\ UNCHANGED <<ar_kind, ar_use_huffman, ar_compressor, ar_files, ar_archive, ar_paths,
                   ar_outdir, ar_log>>
    /\ UNCHANGED notAr

\* archiver_lzma.Archiver.create_archive(input_files, output_path)
LzmaArchiver_create_archive(input_files) ==
    /\ ar_kind = "LZMA"
    /\ ArMayRewrite
    /\ \E entries \in {LZMA_append_entries(ar_files, input_files, 1, <<>>)} :
           ar_archive' = LZMA_write_archive(entries)
    /\ ar_raised' = "none"
    /\ ar_before' = ar_archive
    /\ ar_calls' = Append(ar_calls, "create")
    /\ ar_paths' = input_files
    /\ UNCHANGED <<ar_kind, ar_use_huffman, ar_compressor, ar_files, ar_outdir, ar_log>>
    /\ UNCHANGED notAr

\* archiver_lzma.Archiver.add_files(archive_path, input_files)
LzmaArchiver_add_files(input_files) ==
    /\ ar_kind = "LZMA"
    /\ ArMayAdd
    /\ IF ar_archive = NoFile
       THEN /\ ar_raised' = "FileNotFoundError"
            /\ UNCHANGED ar_archive
       ELSE \E existing \in {LZMA_read_archive(ar_archive)} :
                IF existing.err # "none"
                THEN /\ ar_raised' = existing.err
                     /\ UNCHANGED ar_archive
                ELSE \E entries \in {LZMA_append_entries(ar_files, input_files, 1,
                                                          existing.entries)} :
                         /\ ar_raised' = "none"
                         /\ ar_archive' = LZMA_write_archive(entries)
    /\ ar_before' = ar_archive
    /\ ar_calls' = Append(ar_calls, "add")
    /\ ar_paths' = input_files
    /\ UNCHANGED <<ar_kind, ar_use_huffman, ar_compressor, ar_files, ar_outdir, ar_log>>
    /\ UNCHANGED notAr

\* archiver_lzma.Archiver.extract_archive(archive_path, output_dir)
LzmaArchiver_extract_archive ==
    /\ ar_kind = "LZMA"
    /\ ArMayExtract
    /\ IF ar_archive = NoFile
       THEN /\ ar_raised' = "FileNotFoundError"
            /\ UNCHANGED <<ar_outdir, ar_log>>
       ELSE \E read \in {LZMA_read_archive(ar_archive)} :
                IF read.err # "none"
                THEN /\ ar_raised' = read.err
                     /\ UNCHANGED <<ar_outdir, ar_log>>
                ELSE \E r \in {LZMA_extract_entries(read.entries, 1, ar_outdir, <<>>)} :
                         /\ ar_outdir' = r.outdir
                         /\ ar_log' = r.log
                         /\ ar_raised' = "none"
    /\ ar_before' = ar_archive
    /\ ar_calls' = Append(ar_calls, "extract")
    /\ UNCHANGED <<ar_kind, ar_use_huffman, ar_compressor, ar_files, ar_archive, ar_paths>>
    /\ UNCHANGED notAr

ArFileSystems == [ArPaths -> ArContents \cup {NoFile}]

ArNext ==
    \/ \E files \in ArFileSystems : \E use_huffman \in BOOLEAN :
           Archiver_init(files, use_huffman)
    \/ \E files \in ArFileSystems : LzmaArchiver_init(files)
    \/ \E kind \in {"LZHA", "LZMA"} : \E use_huffman \in BOOLEAN :
           \E entries \in ArCraftedLists(kind, use_huffman) :
               ArPlant(kind, use_huffman, entries)
    \/ \E damage \in ArDamages : ArPlantDamaged(damage)
    \/ \E file_paths \in ArPathLists : Archiver_create_archive(file_paths)
    \/ \E file_paths \in ArPathLists : Archiver_add_files(file_paths)
    \/ Archiver_extract_archive
    \/ Archiver_list_archive
    \/ \E input_files \in ArPathLists : LzmaArchiver_create_archive(input_files)
    \/ \E input_files \in ArPathLists : LzmaArchiver_add_files(input_files)
    \/ LzmaArchiver_extract_archive

(***************************************************************************)
(* format.verify_integrity, given the entry Archiver.compress_file built   *)
(* from a file and the bytes a caller holds against it.                    *)
(***************************************************************************)
ViByteVals == {0, 1, 255}
ViFiles == SeqsUpTo(ViByteVals, ViMaxLen)
ViGiven == SeqsUpTo(ViByteVals, ViMaxLen + 1)

ViInit ==
    /\ vi_pc = "idle"
    /\ vi_data = <<>>
    /\ vi_entry = FileEntry(<<>>, 0, 0, <<>>, W_norm(<<0, 0, 0, 0>>))
    /\ vi_d = <<>>
    /\ vi_result = FALSE

\* Archiver(use_huffman).compress_file(path) where the file d1/a holds data
ViBuild(use_huffman, data) ==
    /\ vi_pc = "idle"
    /\ \E c \in {LZHA_compress_file([data |-> <<>>, hash_chains |-> <<>>], use_huffman,
                                     [dir |-> "d1", name |-> <<97>>], data)} :
           /\ c.ok
           /\ vi_entry' = c.entry
    /\ vi_data' = data
    /\ vi_pc' = "built"
    /\ UNCHANGED <<vi_d, vi_result>>
    /\ UNCHANGED notVi

\* verify_integrity(entry, d)
ViVerify(d) ==
    /\ vi_pc = "built"
    /\ vi_d' = d
    /\ vi_result' = verify_integrity(vi_entry, d)
    /\ vi_pc' = "verified"
    /\ UNCHANGED <<vi_data, vi_entry>>
    /\ UNCHANGED notVi

ViNext ==
    \/ \E use_huffman \in BOOLEAN : \E data \in ViFiles : ViBuild(use_huffman, data)
    \/ \E d \in ViGiven : ViVerify(d)

(***************************************************************************)
(* lzma_compressor.py: _encode_length on a new LZMACompressor and          *)
(* _decode_length on another, the decoder being handed the encoder's bits  *)
(* unchanged and in order.                                                 *)
(***************************************************************************)
LnLengths == LZMA_MIN_MATCH..LZMA_MAX_MATCH
LnPosStates == 0..(NUM_POS_STATES_MAX - 1)

LnInit ==
    /\ ln_pc = "idle"
    /\ ln_length = 0
    /\ ln_pos_state = 0
    /\ ln_enc = BitWriter
    /\ ln_dec = [value |-> 0, pos |-> 0, keys |-> <<>>]

\* LZMACompressor()._encode_length(encoder, match_length, pos_state)
LnEncode(match_length, pos_state) ==
    /\ ln_pc = "idle"
    /\ ln_length' = match_length
    /\ ln_pos_state' = pos_state
    /\ ln_enc' = encode_length([enc |-> BitWriter, models |-> LZMACompressor_init.models],
                               match_length, pos_state).enc
    /\ ln_pc' = "encoded"
    /\ UNCHANGED ln_dec
    /\ UNCHANGED notLn

\* LZMACompressor()._decode_length(decoder, pos_state), the decoder handing
\* out the bits the encoder was given
LnDecode ==
    /\ ln_pc = "encoded"
    /\ \E r \in {decode_length([dec |-> BitReader(ln_enc.bits),
                                 models |-> LZMACompressor_init.models], ln_pos_state)} :
           ln_dec' = [value |-> r.value, pos |-> r.dx.dec.pos, keys |-> r.dx.dec.keys]
    /\ ln_pc' = "decoded"
    /\ UNCHANGED <<ln_length, ln_pos_state, ln_enc>>
    /\ UNCHANGED notLn

LnNext ==
    \/ \E match_length \in LnLengths : \E pos_state \in LnPosStates :
           LnEncode(match_length, pos_state)
    \/ LnDecode

(***************************************************************************)
(* lzma_compressor.py: _encode_distance on a new LZMACompressor and        *)
(* _decode_distance on another, the decoder being handed the encoder's     *)
(* bits unchanged and in order.                                            *)
(***************************************************************************)
\* the distances of the three branches of _encode_distance, the ends of
\* each branch and the end of the window among them
DsDistances == (1..260) \cup {LZMA_WINDOW_SIZE \div 2, LZMA_WINDOW_SIZE - 1, LZMA_WINDOW_SIZE}

DsInit ==
    /\ ds_pc = "idle"
    /\ ds_distance = 0
    /\ ds_enc = BitWriter
    /\ ds_dec = [value |-> 0, pos |-> 0, keys |-> <<>>]

\* LZMACompressor()._encode_distance(encoder, distance)
DsEncode(distance) ==
    /\ ds_pc = "idle"
    /\ ds_distance' = distance
    /\ ds_enc' = encode_distance([enc |-> BitWriter, models |-> LZMACompressor_init.models],
                                 distance).enc
    /\ ds_pc' = "encoded"
    /\ UNCHANGED ds_dec
    /\ UNCHANGED notDs

\* LZMACompressor()._decode_distance(decoder), the decoder handing out the
\* bits the encoder was given
DsDecode ==
    /\ ds_pc = "encoded"
    /\ \E r \in {decode_distance([dec |-> BitReader(ds_enc.bits),
                                   models |-> LZMACompressor_init.models])} :
           ds_dec' = [value |-> r.value, pos |-> r.dx.dec.pos, keys |-> r.dx.dec.keys]
    /\ ds_pc' = "decoded"
    /\ UNCHANGED <<ds_distance, ds_enc>>
    /\ UNCHANGED notDs

DsNext ==
    \/ \E distance \in DsDistances : DsEncode(distance)
    \/ DsDecode

(***************************************************************************)
(* lzma_compressor.py: compress on a new LZMACompressor and decompress on  *)
(* another, one iteration of their while loops at a time, the decoder      *)
(* being handed the encoder's bits unchanged and in order.                 *)
(***************************************************************************)
PkInputs == SeqsUpTo(ByteVals, PkMaxLen)
PkReps == [i \in 1..NUM_REP_DISTANCES |-> 1]

\* the packet compress codes for what _find_longest_match returned
PkKindFound(found, state) ==
    IF ~(found[1] >= LZMA_MIN_MATCH) \/ (found[1] = 1 /\ state < 7) THEN "literal"
    ELSE IF found[2] < 0 THEN "rep" ELSE "match"

\* the packet decompress reads: is_match, then is_rep
PkKindRead(dec) ==
    LET bit(i) == IF dec.pos + i < Len(dec.bits) THEN dec.bits[dec.pos + i + 1] ELSE 0
    IN  IF bit(0) = 0 THEN "literal" ELSE IF bit(1) = 1 THEN "rep" ELSE "match"

PkInit ==
    /\ pk_pc = "idle"
    /\ pk_data = <<>>
    /\ pk_c = [pos |-> 0, state |-> 0, rep_distances |-> <<>>,
               cx |-> [enc |-> BitWriter, models |-> LZMACompressor_init.models]]
    /\ pk_found = [pos |-> 0, reps |-> <<>>, len |-> 0, dist |-> 0]
    /\ pk_ctrace = <<>>
    /\ pk_d = [result |-> <<>>, state |-> 0, rep_distances |-> <<>>,
               dx |-> [dec |-> BitReader(<<>>), models |-> LZMACompressor_init.models]]
    /\ pk_dtrace = <<>>

\* LZMACompressor().compress(data) up to the while loop, data not empty
PkCompressStart(data) ==
    /\ pk_pc = "idle"
    /\ Len(data) > 0
    /\ pk_data' = data
    /\ pk_c' = [pos |-> 0, state |-> 0, rep_distances |-> PkReps,
                cx |-> [enc |-> BitWriter, models |-> LZMACompressor_init.models]]
    /\ pk_pc' = "compressing"
    /\ UNCHANGED <<pk_found, pk_ctrace, pk_d, pk_dtrace>>
    /\ UNCHANGED notPk

\* one iteration of "while pos < len(data)"
PkCompressPacket ==
    /\ pk_pc = "compressing"
    /\ pk_c.pos < Len(pk_data)
    /\ \E found \in {find_longest_match(pk_data, pk_c.pos, pk_c.rep_distances)} :
       \E r \in {CompressPacket(pk_data, pk_c.pos, pk_c.state, pk_c.rep_distances, pk_c.cx)} :
           /\ pk_found' = [pos |-> pk_c.pos, reps |-> pk_c.rep_distances,
                           len |-> found[1], dist |-> found[2]]
           /\ pk_c' = [pos |-> r.pos, state |-> r.state,
                       rep_distances |-> r.rep_distances, cx |-> r.cx]
           /\ pk_ctrace' = Append(pk_ctrace,
                                  [kind |-> PkKindFound(found, pk_c.state),
                                   before |-> pk_c.state, after |-> r.state,
                                   reps |-> r.rep_distances])
    /\ UNCHANGED <<pk_pc, pk_data, pk_d, pk_dtrace>>
    /\ UNCHANGED notPk

\* the end of compress, and LZMACompressor().decompress up to its while
\* loop, on a decoder that hands out the bits the encoder was given
PkDecompressStart ==
    /\ pk_pc = "compressing"
    /\ pk_c.pos >= Len(pk_data)
    /\ pk_d' = [result |-> <<>>, state |-> 0, rep_distances |-> PkReps,
                dx |-> [dec |-> BitReader(pk_c.cx.enc.bits),
                        models |-> LZMACompressor_init.models]]
    /\ pk_pc' = "decompressing"
    /\ UNCHANGED <<pk_data, pk_c, pk_found, pk_ctrace, pk_dtrace>>
    /\ UNCHANGED notPk

\* one iteration of "while len(result) < original_size", with the break
\* at its end
PkDecompressPacket ==
    /\ pk_pc = "decompressing"
    /\ \E r \in {DecompressPacket(pk_d.result, pk_d.state, pk_d.rep_distances, pk_d.dx,
                                   Len(pk_data))} :
           /\ pk_d' = [result |-> r.result, state |-> r.state,
                       rep_distances |-> r.rep_distances, dx |-> r.dx]
           /\ pk_dtrace' = Append(pk_dtrace,
                                  [kind |-> PkKindRead(pk_d.dx.dec),
                                   before |-> pk_d.state, after |-> r.state,
                                   reps |-> r.rep_distances])
           /\ pk_pc' = IF ~r.ok THEN "raised"
                       ELSE IF \/ Len(r.result) >= Len(pk_data)
                               \/ r.dx.dec.pos >= Len(r.dx.dec.bits)
                       THEN "done" ELSE "decompressing"
    /\ UNCHANGED <<pk_data, pk_c, pk_found, pk_ctrace>>
    /\ UNCHANGED notPk

PkNext ==
    \/ \E data \in PkInputs : PkCompressStart(data)
    \/ PkCompressPacket
    \/ PkDecompressStart
    \/ PkDecompressPacket

(***************************************************************************)
(* lzma_compressor.py: one RangeEncoder given the encode_bit calls of      *)
(* _encode_distance, on one LZMACompressor, and then finish().             *)
(***************************************************************************)
\* a distance of each branch of _encode_distance, and one whose sixteen
\* bits are all 1
EnDistances == {1, 5, 128, LZMA_WINDOW_SIZE - 1}

EnInit ==
    /\ en_pc = "encoding"
    /\ en_calls = <<>>
    /\ en_cx = [enc |-> RangeEncoder_init, models |-> LZMACompressor_init.models]

\* self._encode_distance(encoder, distance): its encode_bit calls
EnEncodeDistance(distance) ==
    /\ en_pc = "encoding"
    /\ Len(en_calls) < EnMaxCalls
    /\ en_calls' = Append(en_calls, distance)
    /\ en_cx' = encode_distance(en_cx, distance)
    /\ en_pc' = IF en_cx'.enc.ok THEN "encoding" ELSE "raised"
    /\ UNCHANGED notEn

\* encoder.finish()
EnFinish ==
    /\ en_pc = "encoding"
    /\ en_cx' = [en_cx EXCEPT !.enc = finish(en_cx.enc)]
    /\ en_pc' = IF en_cx'.enc.ok THEN "finished" ELSE "raised"
    /\ UNCHANGED en_calls
    /\ UNCHANGED notEn

EnNext ==
    \/ \E distance \in EnDistances : EnEncodeDistance(distance)
    \/ EnFinish

(***************************************************************************)
(* lzma_compressor.py: whole calls of compress and decompress on an        *)
(* LZMACompressor self = [models, rep_distances]: [raised, out, self], and *)
(* compress on an instance that ran one of them before.                    *)
(***************************************************************************)
\* "while pos < len(data)" of compress and what follows it
RECURSIVE CompressLoop(_, _, _, _, _)
CompressLoop(data, pos, state, self, encoder) ==
    IF pos >= Len(data)
    THEN With(finish(encoder), LAMBDA f :
              [raised |-> ~f.ok,
               out |-> IF f.ok THEN LZMA_MAGIC \o PackLE(Len(data), 8) \o f.output ELSE <<>>,
               self |-> self])
    ELSE With(CompressPacket(data, pos, state, self.rep_distances,
                             [enc |-> encoder, models |-> self.models]), LAMBDA r :
              IF r.cx.enc.ok
              THEN CompressLoop(data, r.pos, r.state,
                                [models |-> r.cx.models, rep_distances |-> r.rep_distances],
                                r.cx.enc)
              ELSE [raised |-> TRUE, out |-> <<>>,
                    self |-> [self EXCEPT !.models = r.cx.models]])

\* LZMACompressor.compress(data)
LZMACompressor_compress(self, data) ==
    IF Len(data) = 0
    THEN [raised |-> FALSE, out |-> LZMA_MAGIC \o PackLE(0, 8), self |-> self]
    ELSE CompressLoop(data, 0, 0, [self EXCEPT !.rep_distances = PkReps], RangeEncoder_init)

\* "while len(result) < original_size" of decompress and what follows it
RECURSIVE DecompressLoop(_, _, _, _, _)
DecompressLoop(result, state, self, decoder, original_size) ==
    With(DecompressPacket(result, state, self.rep_distances,
                          [dec |-> decoder, models |-> self.models], original_size),
         LAMBDA r :
             IF ~r.ok
             THEN [raised |-> TRUE, out |-> <<>>,
                   self |-> [models |-> r.dx.models, rep_distances |-> r.rep_distances]]
             ELSE IF \/ Len(r.result) >= original_size
                     \/ r.dx.dec.pos >= Len(r.dx.dec.data)
             THEN [raised |-> FALSE, out |-> PySlice(r.result, 0, original_size),
                   self |-> [models |-> r.dx.models, rep_distances |-> r.rep_distances]]
             ELSE DecompressLoop(r.result, r.state,
                                 [models |-> r.dx.models, rep_distances |-> r.rep_distances],
                                 r.dx.dec, original_size))

\* LZMACompressor.decompress(data)
LZMACompressor_decompress(self, data) ==
    IF ~StartsWith(data, LZMA_MAGIC) \/ Len(data) < 12
    THEN [raised |-> FALSE, out |-> <<>>, self |-> self]
    ELSE IF UnpackLE(PySlice(data, 4, 12)) = 0
    THEN [raised |-> FALSE, out |-> <<>>, self |-> self]
    ELSE DecompressLoop(<<>>, 0, [self EXCEPT !.rep_distances = PkReps],
                        RangeDecoder_init(PySlice(data, 12, Len(data))),
                        UnpackLE(PySlice(data, 4, 12)))

RuInputs == SeqsUpTo(ByteVals, RuMaxLen)

RuInit ==
    /\ ru_pc = "new"
    /\ ru_before = [call |-> "none", data |-> <<>>]
    /\ ru_self = LZMACompressor_init
    /\ ru_data = <<>>
    /\ ru_out = [raised |-> FALSE, out |-> <<>>]
    /\ ru_fresh = [raised |-> FALSE, out |-> <<>>]

\* c = LZMACompressor(); c.compress(data)
RuCompressBefore(data) ==
    /\ ru_pc = "new"
    /\ ru_before' = [call |-> "compress", data |-> data]
    /\ ru_self' = LZMACompressor_compress(ru_self, data).self
    /\ ru_pc' = "used"
    /\ UNCHANGED <<ru_data, ru_out, ru_fresh>>
    /\ UNCHANGED notRu

\* c = LZMACompressor(); c.decompress(LZMACompressor().compress(data))
RuDecompressBefore(data) ==
    /\ ru_pc = "new"
    /\ ru_before' = [call |-> "decompress", data |-> data]
    /\ \E packed \in {LZMACompressor_compress(LZMACompressor_init, data)} :
           /\ ~packed.raised
           /\ ru_self' = LZMACompressor_decompress(ru_self, packed.out).self
    /\ ru_pc' = "used"
    /\ UNCHANGED <<ru_data, ru_out, ru_fresh>>
    /\ UNCHANGED notRu

\* c.compress(data) on the used instance, and LZMACompressor().compress(data)
RuCompress(data) ==
    /\ ru_pc = "used"
    /\ ru_data' = data
    /\ \E r \in {LZMACompressor_compress(ru_self, data)} :
           /\ ru_out' = [raised |-> r.raised, out |-> r.out]
           /\ ru_self' = r.self
    /\ \E r \in {LZMACompressor_compress(LZMACompressor_init, data)} :
           ru_fresh' = [raised |-> r.raised, out |-> r.out]
    /\ ru_pc' = "compressed"
    /\ UNCHANGED ru_before
    /\ UNCHANGED notRu

RuNext ==
    \/ \E data \in RuInputs : RuCompressBefore(data)
    \/ \E data \in RuInputs : RuDecompressBefore(data)
    \/ \E data \in RuInputs : RuCompress(data)

(***************************************************************************)
(* main.py: "create" writes an archive, with or without --no-huffman, and  *)
(* a later "extract" reads it.  Each command constructs its own Archiver.  *)
(***************************************************************************)
CliPathLists == {s \in ArPathLists : Len(s) > 0}

CliInit ==
    /\ cli_pc = "start"
    /\ cli_files = [p \in ArPaths |-> NoFile]
    /\ cli_no_huffman = FALSE
    /\ cli_paths = <<>>
    /\ cli_archive = NoFile
    /\ cli_outdir = <<>>
    /\ cli_log = <<>>
    /\ cli_exit = 0

\* "use_huffman = not getattr(args, 'no_huffman', False)": only the create
\* parser has the option
main_use_huffman(command, no_huffman) ==
    IF command = "create" THEN ~no_huffman ELSE TRUE

\* main.py create -o archive [--no-huffman] files...
CliCreate(files, no_huffman, file_paths) ==
    /\ cli_pc = "start"
    /\ cli_files' = files
    /\ cli_no_huffman' = no_huffman
    /\ cli_paths' = file_paths
    /\ \E r \in {LZHA_create_entries(files, main_use_huffman("create", no_huffman),
                                     file_paths, 1,
                                     [data |-> <<>>, hash_chains |-> <<>>], <<>>)} :
           /\ cli_exit' = IF r.raised # "none" THEN 1 ELSE 0
           /\ cli_archive' = IF r.raised # "none" \/ Len(r.entries) = 0 THEN cli_archive
                             ELSE LZHA_create_archive(r.entries)
    /\ cli_pc' = "created"
    /\ UNCHANGED <<cli_outdir, cli_log>>
    /\ UNCHANGED notCli

\* main.py extract archive -d dir
CliExtract ==
    /\ cli_pc = "created"
    /\ IF cli_archive = NoFile
       THEN /\ cli_exit' = 0
            /\ UNCHANGED <<cli_outdir, cli_log>>
       ELSE \E read \in {LZHA_read_archive(cli_archive)} :
                IF read.err # "none"
                THEN /\ cli_exit' = IF read.err = "ValueError" THEN 0 ELSE 1
                     /\ UNCHANGED <<cli_outdir, cli_log>>
                ELSE \E r \in {LZHA_extract_entries(main_use_huffman("extract", FALSE),
                                                    read.entries, 1, cli_outdir, <<>>)} :
                         /\ cli_outdir' = r.outdir
                         /\ cli_log' = r.log
                         /\ cli_exit' = IF r.raised # "none" THEN 1 ELSE 0
    /\ cli_pc' = "extracted"
    /\ UNCHANGED <<cli_files, cli_no_huffman, cli_paths, cli_archive>>
    /\ UNCHANGED notCli

CliNext ==
    \/ \E files \in ArFileSystems : \E no_huffman \in BOOLEAN :
           \E file_paths \in CliPathLists : CliCreate(files, no_huffman, file_paths)
    \/ CliExtract

(***************************************************************************)
(* archiver.py, archiver_lzma.py: where extract_archive writes.  Paths are *)
(* byte strings; the file of an entry is opened at                         *)
(* os.path.join(output_dir, entry.filename).                               *)
(***************************************************************************)
\* os.path.join(a, p) of posixpath; 47 is "/"
os_path_join(a, p) ==
    IF Len(p) > 0 /\ p[1] = 47 THEN p
    ELSE IF Len(a) = 0 \/ a[Len(a)] = 47 THEN a \o p
    ELSE a \o <<47>> \o p

\* path.split('/') from index i on, part being the component begun
RECURSIVE SplitPath(_, _, _)
SplitPath(path, i, part) ==
    IF i > Len(path) THEN <<part>>
    ELSE IF path[i] = 47 THEN <<part>> \o SplitPath(path, i + 1, <<>>)
    ELSE SplitPath(path, i + 1, Append(part, path[i]))

\* the directory entries a path leads through, as the system resolves
\* them (no symbolic links): [abs, up, parts], up the number of ".." left
\* above the starting directory; 46 is "."
RECURSIVE WalkPath(_, _, _, _, _)
WalkPath(parts, i, absolute, up, walked) ==
    IF i > Len(parts) THEN [abs |-> absolute, up |-> up, parts |-> walked]
    ELSE IF parts[i] = <<>> \/ parts[i] = <<46>>
    THEN WalkPath(parts, i + 1, absolute, up, walked)
    ELSE IF parts[i] = <<46, 46>>
    THEN IF Len(walked) > 0
         THEN WalkPath(parts, i + 1, absolute, up, SubSeq(walked, 1, Len(walked) - 1))
         ELSE WalkPath(parts, i + 1, absolute, IF absolute THEN 0 ELSE up + 1, walked)
    ELSE WalkPath(parts, i + 1, absolute, up, Append(walked, parts[i]))

\* where open(path, 'wb') creates its file
Location(path) ==
    WalkPath(SplitPath(path, 1, <<>>), 1, Len(path) > 0 /\ path[1] = 47, 0, <<>>)

\* "out"
PtOutputDir == <<111, 117, 116>>

\* entry names: a, b, ../a, ../b, /a
PtNames == {<<97>>, <<98>>, <<46, 46, 47, 97>>, <<46, 46, 47, 98>>, <<47, 97>>}
PtNameLists == {s \in SeqsUpTo(PtNames, PtMaxEntries) : Injective(s)}

\* a sound entry of that name holding A B
PtEntry(kind, use_huffman, filename) ==
    IF kind = "LZHA"
    THEN LZHA_crafted(use_huffman, filename, TokensAB, <<65, 66>>,
                      calculate_crc32(<<65, 66>>))
    ELSE ArchiveEntry(filename, 2, Len(compress_lzma(<<65, 66>>)),
                      calculate_crc32(<<65, 66>>), compress_lzma(<<65, 66>>))

PtInit ==
    /\ pt_pc = "start"
    /\ pt_kind = "none"
    /\ pt_use_huffman = FALSE
    /\ pt_archive = NoFile
    /\ pt_outdir = <<>>
    /\ pt_raised = "none"

\* somebody else leaves an archive of entries with these names
PtPlant(kind, use_huffman, names) ==
    /\ pt_pc = "start"
    /\ pt_kind' = kind
    /\ pt_use_huffman' = use_huffman
    /\ \E entries \in {[i \in 1..Len(names) |-> PtEntry(kind, use_huffman, names[i])]} :
           pt_archive' = IF kind = "LZHA" THEN LZHA_create_archive(entries)
                         ELSE LZMA_write_archive(entries)
    /\ pt_pc' = "planted"
    /\ UNCHANGED <<pt_outdir, pt_raised>>
    /\ UNCHANGED notPt

\* archiver.Archiver(use_huffman).extract_archive(archive_path, "out")
PtExtractLZHA ==
    /\ pt_pc = "planted"
    /\ pt_kind = "LZHA"
    /\ \E read \in {LZHA_read_archive(pt_archive)} :
           IF read.err = "ValueError"
           THEN UNCHANGED <<pt_outdir, pt_raised>>
           ELSE IF read.err # "none"
           THEN /\ pt_raised' = read.err
                /\ UNCHANGED pt_outdir
           ELSE \E r \in {LZHA_extract_entries(pt_use_huffman, read.entries, 1,
                                               pt_outdir, <<>>)} :
                    /\ pt_outdir' = r.outdir
                    /\ pt_raised' = r.raised
    /\ pt_pc' = "extracted"
    /\ UNCHANGED <<pt_kind, pt_use_huffman, pt_archive>>
    /\ UNCHANGED notPt

\* archiver_lzma.Archiver().extract_archive(archive_path, "out")
PtExtractLZMA ==
    /\ pt_pc = "planted"
    /\ pt_kind = "LZMA"
    /\ \E read \in {LZMA_read_archive(pt_archive)} :
           IF read.err # "none"
           THEN /\ pt_raised' = read.err
                /\ UNCHANGED pt_outdir
           ELSE \E r \in {LZMA_extract_entries(read.entries, 1, pt_outdir, <<>>)} :
                    /\ pt_outdir' = r.outdir
                    /\ pt_raised' = "none"
    /\ pt_pc' = "extracted"
    /\ UNCHANGED <<pt_kind, pt_use_huffman, pt_archive>>
    /\ UNCHANGED notPt

PtNext ==
    \/ \E use_huffman \in BOOLEAN : \E names \in PtNameLists :
           PtPlant("LZHA", use_huffman, names)
    \/ \E names \in PtNameLists : PtPlant("LZMA", FALSE, names)
    \/ PtExtractLZHA
    \/ PtExtractLZMA

Init ==
    /\ LzInit /\ RcInit /\ LzmaInit /\ HfInit /\ FmtInit /\ ArInit /\ TkInit
    /\ ViInit /\ LnInit /\ DsInit /\ PkInit /\ EnInit /\ RuInit /\ CliInit
    /\ PtInit

SpecLZMA == Init /\ [][LzmaNext]_vars

\* C2: decompress on a fresh LZMACompressor, given what compress on a fresh
\* LZMACompressor returned for data, returns exactly data (and does not
\* raise).
C2_LzmaRoundTrip ==
    /\ d_pc # "raised"
    /\ d_pc = "done" => d_return = c_data

SpecLZ77 == Init /\ [][LzNext]_vars

SpecRange == Init /\ [][RcNext]_vars

SpecHuffman == Init /\ [][HfNext]_vars

SpecFormat == Init /\ [][FmtNext]_vars
SpecArchive == Init /\ [][ArNext]_vars

SpecTokens == Init /\ [][TkNext]_vars

SpecVerify == Init /\ [][ViNext]_vars

SpecLength == Init /\ [][LnNext]_vars

SpecDistance == Init /\ [][DsNext]_vars

SpecPackets == Init /\ [][PkNext]_vars

SpecEncoder == Init /\ [][EnNext]_vars

SpecReuse == Init /\ [][RuNext]_vars

SpecCli == Init /\ [][CliNext]_vars

SpecPaths == Init /\ [][PtNext]_vars

\* what read_archive of the archiver's module returns for an archive file
ArRead(archive) ==
    IF ar_kind = "LZHA" THEN LZHA_read_archive(archive) ELSE LZMA_read_archive(archive)

\* what the archiver's extract_archive decompresses an entry to: [raised, out]
ArDecompress(entry) ==
    IF ar_kind = "LZHA" THEN LZHA_decompress(ar_use_huffman, entry)
    ELSE [raised |-> "none", out |-> decompress_lzma(entry.data)]

\* the entries of the list whose filename is name
Named(entries, name) == SelectSeq(entries, LAMBDA e : e.filename = name)

\* the last call made
ArLastCall == IF Len(ar_calls) = 0 THEN "none" ELSE ar_calls[Len(ar_calls)]

\* C5: when create_archive has been given readable files of pairwise
\* distinct basenames and extract_archive of the same Archiver has then
\* unpacked the archive into an empty directory, nothing was raised and the
\* directory holds, for every input file, a file of its basename with
\* exactly its bytes; for the LZHA and for the LZMA archiver.
C5_CreateExtract ==
    ( /\ ar_calls = <<"create", "extract">>
      /\ \A i \in 1..Len(ar_paths) : isfile(ar_files, ar_paths[i])
      /\ \A i, j \in 1..Len(ar_paths) :
             i # j => basename(ar_paths[i]) # basename(ar_paths[j]) )
    => /\ ar_raised = "none"
       /\ \A i \in 1..Len(ar_paths) :
              /\ basename(ar_paths[i]) \in DOMAIN ar_outdir
              /\ ar_outdir[basename(ar_paths[i])] = ar_files[ar_paths[i]]

\* two files, an empty one and one with a repetition, have gone through a
\* Huffman-coded LZHA archive and come back
C5_Witness ==
    /\ ar_calls = <<"create", "extract">>
    /\ ar_kind = "LZHA"
    /\ ar_use_huffman
    /\ Len(ar_paths) = 2
    /\ basename(ar_paths[1]) # basename(ar_paths[2])
    /\ ar_files[ar_paths[1]] = <<>>
    /\ Len(ar_files[ar_paths[2]]) = 5
    /\ ar_log = <<"OK", "OK">>
    /\ ar_outdir[basename(ar_paths[2])] = ar_files[ar_paths[2]]

\* the archive read holds an entry of f's basename
C7_Before(read, f) ==
    /\ read.err = "none"
    /\ Len(Named(read.entries, basename(f))) > 0

\* the archive read holds exactly one entry of f's basename, and f's bytes
\* come out of it
C7_After(read, f) ==
    /\ read.err = "none"
    /\ Len(Named(read.entries, basename(f))) = 1
    /\ ArDecompress(Named(read.entries, basename(f))[1]).out = ar_files[f]

\* C7: after add_files(A, [f]) where f is readable and an entry of A has
\* f's basename, the rewritten archive holds exactly one entry of that
\* filename, and its content is f's; for the LZHA and for the LZMA
\* archiver.
C7_LastWriteWins ==
    ( /\ ar_calls = <<"create", "add">>
      /\ Len(ar_paths) = 1
      /\ isfile(ar_files, ar_paths[1])
      /\ ar_before # NoFile
      /\ C7_Before(ArRead(ar_before), ar_paths[1]) )
    => /\ ar_raised = "none"
       /\ ar_archive # NoFile
       /\ C7_After(ArRead(ar_archive), ar_paths[1])

\* C8: a create_archive none of whose input paths is a regular file leaves
\* the archive path as it was, no file created there and none overwritten;
\* for the LZHA and for the LZMA archiver.
C8_WriteOnlyIfEntries ==
    ( /\ ArLastCall = "create"
      /\ \A i \in 1..Len(ar_paths) : ~isfile(ar_files, ar_paths[i]) )
    => ar_archive = ar_before

\* the token bytes from pos on, read with output_length bytes of output
\* behind them, hold a tag without its operands, or a match whose distance
\* is 0 or more than the output so far
RECURSIVE BadTokenBytes(_, _, _)
BadTokenBytes(data, pos, output_length) ==
    IF pos >= Len(data) THEN FALSE
    ELSE IF At(data, pos) = 0
    THEN IF pos + 2 > Len(data) THEN TRUE
         ELSE BadTokenBytes(data, pos + 2, output_length + 1)
    ELSE IF At(data, pos) = 1
    THEN IF pos + 4 > Len(data) THEN TRUE
         ELSE IF \/ UnpackLE(PySlice(data, pos + 2, pos + 4)) = 0
                 \/ UnpackLE(PySlice(data, pos + 2, pos + 4)) > output_length
         THEN TRUE
         ELSE BadTokenBytes(data, pos + 4, output_length + At(data, pos + 1) + MIN_MATCH)
    ELSE BadTokenBytes(data, pos + 1, output_length)

\* the entry's payload, the Huffman stage undone, is such a token stream
C9_BadEntry(entry) ==
    IF ar_use_huffman
    THEN With(decompress_with_huffman(entry.compressed_data), LAMBDA h :
              h.ok /\ BadTokenBytes(h.out, 0, 0))
    ELSE BadTokenBytes(entry.compressed_data, 0, 0)

\* extract_archive has gone through all the entries without raising, and
\* has written nothing for the bad ones
C9_AllProcessed(entries) ==
    /\ ar_raised = "none"
    /\ Len(ar_log) = Len(entries)
    /\ \A i \in 1..Len(ar_log) : C9_BadEntry(entries[i]) => ar_log[i] = "FAILED"

\* C9: the LZHA extract_archive skips an entry whose payload is a truncated
\* record or holds a match of distance 0 or of a distance beyond the
\* output, writing no file for it, and still goes through every other
\* entry: it neither raises nor stops before the last entry.
C9_BadEntrySkipped ==
    ( /\ ar_kind = "LZHA"
      /\ ArLastCall = "extract"
      /\ ar_archive # NoFile
      /\ ArRead(ar_archive).err = "none" )
    => C9_AllProcessed(ArRead(ar_archive).entries)

\* the entry's check as its archiver makes it on the decompressed bytes d
ArCheckPasses(entry, d) ==
    /\ d.raised = "none"
    /\ IF ar_kind = "LZHA" THEN verify_integrity(entry, d.out)
       ELSE calculate_crc32(d.out) = entry.crc32

\* entry i, which extract_archive has gone through, decompressed to d
C10_Entry(entries, i, d) ==
    /\ (d.raised = "none" /\ calculate_crc32(d.out) # entries[i].crc32)
           => ar_log[i] = "FAILED"
    /\ ArCheckPasses(entries[i], d)
           => /\ ar_log[i] = "OK"
              /\ entries[i].filename \in DOMAIN ar_outdir
              /\ (\A j \in (i + 1)..Len(ar_log) :
                      ar_log[j] = "OK" => entries[j].filename # entries[i].filename)
                     => ar_outdir[entries[i].filename] = d.out

C10_Extracted(entries) ==
    /\ Len(ar_log) <= Len(entries)
    /\ \A i \in 1..Len(ar_log) : C10_Entry(entries, i, ArDecompress(entries[i]))
    /\ \A n \in DOMAIN ar_outdir :
           \E i \in 1..Len(ar_log) : entries[i].filename = n /\ ar_log[i] = "OK"
    /\ Len(ar_log) < Len(entries)
           => ArDecompress(entries[Len(ar_log) + 1]).raised # "none"

\* C10: when extract_archive has read an archive, an entry whose
\* decompressed bytes have another CRC32 than the stored one was passed
\* over and no file in the output directory comes from it; an entry whose
\* check passed was written with its decompressed bytes; and the loop went
\* on after either, stopping early only at an entry whose decompression
\* raises; for the LZHA and for the LZMA archiver.
C10_CrcMismatchSkipped ==
    ( /\ ArLastCall = "extract"
      /\ ar_archive # NoFile
      /\ ArRead(ar_archive).err = "none" )
    => C10_Extracted(ArRead(ar_archive).entries)

\* an archive whose first entry has another CRC32 than its bytes and whose
\* second entry is sound has been extracted: only the second was written
C10_Witness ==
    /\ ar_calls = <<"plant", "extract">>
    /\ ar_kind = "LZMA"
    /\ ar_raised = "none"
    /\ ar_log = <<"FAILED", "OK">>
    /\ DOMAIN ar_outdir = {<<103>>}
    /\ ar_outdir[<<103>>] = <<65, 66>>
    /\ calculate_crc32(decompress_lzma(ArRead(ar_archive).entries[1].data))
           # ArRead(ar_archive).entries[1].crc32

\* entry i was written by the extract_archive that has run, and no later
\* entry over it
C11_Written(entries, i) ==
    /\ ar_log[i] = "OK"
    /\ \A j \in (i + 1)..Len(ar_log) :
           ar_log[j] = "OK" => entries[j].filename # entries[i].filename

C11_LengthsAgree(entries) ==
    \A i \in 1..Len(ar_log) :
        C11_Written(entries, i)
            => /\ entries[i].filename \in DOMAIN ar_outdir
               /\ Len(ar_outdir[entries[i].filename]) = entries[i].original_size

\* C11: every file extract_archive has written has as many bytes as the
\* original_size stored in its entry, also when the CRC32 of the
\* decompressed bytes is the stored crc32; for the LZHA and for the LZMA
\* archiver.
C11_LengthChecked ==
    ( /\ ArLastCall = "extract"
      /\ ar_archive # NoFile
      /\ ArRead(ar_archive).err = "none"
      /\ Len(ar_log) <= Len(ArRead(ar_archive).entries) )
    => C11_LengthsAgree(ArRead(ar_archive).entries)

\* C14: archiver_lzma's read_archive, called by extract_archive or by
\* add_files on an archive cut short inside an entry's filename or inside
\* its payload, raises; it returns no entry whose payload is shorter than
\* its compressed_size.
C14_TruncationRejected ==
    ( /\ ar_kind = "LZMA"
      /\ Len(ar_calls) = 2
      /\ ar_calls[1] \in {"cut name", "cut payload"}
      /\ ar_calls[2] \in {"extract", "add"} )
    => /\ ar_raised # "none"
       /\ LZMA_read_archive(ar_before).err # "none"

\* C15: format's read_archive raises and returns no entries on an archive
\* of another magic, of another version, or cut short inside the header,
\* the entry count, a filename length, a filename, an entry's metadata or
\* its payload, or holding fewer entries than it declares; the LZHA
\* extract_archive, list_archive and add_files called on it write no
\* file: the output directory stays empty and the archive as it was.
C15_BadArchiveRejected ==
    ( /\ ar_kind = "LZHA"
      /\ Len(ar_calls) = 2
      /\ ar_calls[1] \in ArDamages )
    => /\ LZHA_read_archive(ar_before).err # "none"
       /\ LZHA_read_archive(ar_before).entries = <<>>
       /\ ar_archive = ar_before
       /\ ar_outdir = <<>>
       /\ ar_log = <<>>

\* add_files has been called with a readable file on an archive cut short
\* inside the crc32 of its entry, and has raised struct.error
C15_Witness ==
    /\ ar_kind = "LZHA"
    /\ ar_calls = <<"cut crc32", "add">>
    /\ Len(ar_paths) = 1
    /\ isfile(ar_files, ar_paths[1])
    /\ ar_raised = "struct.error"
    /\ ar_archive = ar_before
    /\ Len(ar_archive) = 42

\* the paths of the list that add_files finds readable
C16_Added(files, file_paths) == SelectSeq(file_paths, LAMBDA f : isfile(files, f))

\* the entries that have none of the added files' basenames
C16_Kept(entries, added) ==
    SelectSeq(entries, LAMBDA e : \A i \in 1..Len(added) : e.filename # basename(added[i]))

\* from entry k + 1 on the list holds entries of the added files only,
\* the last one of each name with that file's bytes
C16_AddedAfter(entries, k, added) ==
    /\ \A j \in (k + 1)..Len(entries) :
           \E i \in 1..Len(added) : entries[j].filename = basename(added[i])
    /\ \A i \in 1..Len(added) :
           \E j \in (k + 1)..Len(entries) :
               /\ entries[j].filename = basename(added[i])
               /\ (\A i2 \in (i + 1)..Len(added) : basename(added[i2]) # basename(added[i]))
                      => /\ ArDecompress(entries[j]).out = ar_files[added[i]]
                         /\ \A j2 \in (j + 1)..Len(entries) :
                                entries[j2].filename # entries[j].filename

C16_Frame(old, new, added) ==
    /\ C16_Kept(new, added) = C16_Kept(old, added)
    /\ \E k \in 0..Len(new) :
           /\ C16_Kept(SubSeq(new, 1, k), added) = C16_Kept(old, added)
           /\ C16_AddedAfter(new, k, added)

\* every file the extraction wrote holds what the last entry of its name
\* in the archive decompresses to, and every entry's name was written
C16_Restored(entries) ==
    /\ ar_raised = "none"
    /\ \A j \in 1..Len(entries) :
           /\ entries[j].filename \in DOMAIN ar_outdir
           /\ (\A j2 \in (j + 1)..Len(entries) : entries[j2].filename # entries[j].filename)
                  => ar_outdir[entries[j].filename] = ArDecompress(entries[j]).out

\* C16: add_files on an archive the Archiver created leaves the entries
\* whose filename is none of the added files' basenames as they were, in
\* their order, and puts the added files' entries after them; an
\* extraction that follows writes every entry's file, the added files
\* with their bytes.
C16_AddKeepsOthers ==
    /\ ( /\ ar_calls = <<"create", "add">>
         /\ ar_before # NoFile )
       => /\ ar_raised = "none"
          /\ ar_archive # NoFile
          /\ ArRead(ar_archive).err = "none"
          /\ C16_Frame(ArRead(ar_before).entries, ArRead(ar_archive).entries,
                       C16_Added(ar_files, ar_paths))
    /\ ( /\ ar_calls = <<"create", "add", "extract">>
         /\ ar_archive # NoFile
         /\ ArRead(ar_archive).err = "none" )
       => C16_Restored(ArRead(ar_archive).entries)

\* d1/b has been added to an archive that held d1/a, and both have come
\* out of it
C16_Witness ==
    /\ ar_calls = <<"create", "add", "extract">>
    /\ ar_kind = "LZHA"
    /\ Len(ar_paths) = 1
    /\ basename(ar_paths[1]) = <<98>>
    /\ Len(ar_files[ar_paths[1]]) = 5
    /\ Len(ArRead(ar_archive).entries) = 2
    /\ ArRead(ar_archive).entries[1].filename = <<97>>
    /\ ar_log = <<"OK", "OK">>
    /\ DOMAIN ar_outdir = {<<97>>, <<98>>}
    /\ ar_outdir[<<98>>] = ar_files[ar_paths[1]]

\* a match among the tokens from i on, reached with output_length bytes
\* of output, has distance 0 or a distance beyond the output
RECURSIVE C12_BadMatch(_, _, _)
C12_BadMatch(tokens, i, output_length) ==
    IF i > Len(tokens) THEN FALSE
    ELSE IF tokens[i].type = MATCH
    THEN \/ tokens[i].distance = 0
         \/ tokens[i].distance > output_length
         \/ C12_BadMatch(tokens, i + 1, output_length + tokens[i].length)
    ELSE C12_BadMatch(tokens, i + 1, output_length + 1)

\* C12: LZ77Compressor.decompress raises, returning nothing, on every
\* token list that holds a match of distance 0 or of a distance greater
\* than the number of bytes output when the match is reached.
C12_BadDistanceRejected ==
    (tk_pc = "decompressed" /\ C12_BadMatch(tk_tokens, 1, 0)) => ~tk_out.ok

\* the bytes from pos on end after a tag whose operands are missing
RECURSIVE C13_Truncated(_, _)
C13_Truncated(data, pos) ==
    IF pos >= Len(data) THEN FALSE
    ELSE IF At(data, pos) = 0
    THEN pos + 2 > Len(data) \/ C13_Truncated(data, pos + 2)
    ELSE IF At(data, pos) = 1
    THEN pos + 4 > Len(data) \/ C13_Truncated(data, pos + 4)
    ELSE C13_Truncated(data, pos + 1)

\* C13: TokenEncoder.decode_tokens raises, returning no token list, when
\* the byte stream ends after a tag byte whose operands are missing: tag 0
\* without its literal byte, or tag 1 with fewer than three bytes after it.
C13_TruncatedRejected ==
    (tk_pc = "decoded" /\ C13_Truncated(tk_bytes, 0)) => tk_decoded.raised

\* the token is one the constructor calls of the compressor make, with its
\* fields in their ranges
C18_InRange(token) ==
    IF token.type = LITERAL
    THEN token.literal \in 0..255 /\ token.length = 0 /\ token.distance = 0
    ELSE /\ token.type = MATCH
         /\ token.length \in MIN_MATCH..MAX_MATCH
         /\ token.distance \in 1..WINDOW_SIZE
         /\ token.literal = 0

\* C18: for a token list whose literals are in 0..255, whose match lengths
\* are in 3..258 and whose match distances are in 1..32768, encode_tokens
\* raises nothing and decode_tokens of its bytes returns the list, token
\* for token.
C18_TokenRoundTrip ==
    (\A i \in 1..Len(tk_tokens) : C18_InRange(tk_tokens[i]))
    => /\ tk_pc \in {"encoded", "decoded"} => tk_encoded.ok
       /\ (tk_pc = "decoded" /\ tk_bytes = tk_encoded.out)
              => /\ ~tk_decoded.raised
                 /\ tk_decoded.tokens = tk_tokens

\* the longest match at the farthest distance and the literal 255 have
\* been encoded and decoded
C18_Witness ==
    /\ tk_pc = "decoded"
    /\ tk_tokens = <<Token(MATCH, MAX_MATCH, WINDOW_SIZE, 0), Token(LITERAL, 0, 0, 255)>>
    /\ tk_bytes = <<1, 255, 0, 128, 0, 255>>
    /\ tk_decoded.tokens = tk_tokens

\* C3: the decoder, given finish()'s bytes and the encoder's model indices,
\* returns the encoder's bits in order, and after every step its updated
\* model equals the encoder's.
C3_RangeSymmetry ==
    \A k \in 1..Len(rc_decoded) :
        /\ rc_decoded[k].bit = rc_steps[k].bit
        /\ rc_decoded[k].model = rc_steps[k].model

\* C1: decompress(compress(data)) = data for every buffer, also on an
\* instance that has already compressed other buffers: once the tokens of a
\* compress call have been decompressed, the output is exactly the input of
\* that call and no error was raised.
C1_LZ77RoundTrip ==
    lz_pc = "decompressed" => lz_out = [ok |-> TRUE, out |-> lz_in]

\* a second call on the same instance, whose hash chains are not those of
\* a fresh finder for this buffer, and whose tokens hold a match that
\* overlaps its own output
C1_Witness ==
    /\ lz_pc = "decompressed"
    /\ lz_calls = 2
    /\ hash_chains # UpdateFrom(<<>>, lz_in, 0)
    /\ lz_out.out = lz_in
    /\ \E i \in 1..Len(lz_tokens) :
           /\ lz_tokens[i].type = MATCH
           /\ lz_tokens[i].distance < lz_tokens[i].length

\* C4: decompress_with_huffman(compress_with_huffman(data)) = data for every
\* buffer, the empty one and those of one distinct byte value included: the
\* output is the input with its exact length and nothing was raised.
C4_HuffmanRoundTrip ==
    hf_pc = "decompressed" => hf_out = [ok |-> TRUE, out |-> hf_in]

\* a buffer of three equal bytes, whose three code bits are padded to a
\* byte, has been restored
C4_Witness ==
    /\ hf_pc = "decompressed"
    /\ Len(hf_in) = 3
    /\ \A i \in 1..3 : hf_in[i] = hf_in[1]
    /\ hf_out.out = hf_in

\* C6: for every list of entries whose compressed_size is the payload
\* length (the empty list included), read_archive of the serialized archive
\* raises nothing and returns the same entries in the same order, field for
\* field, in the LZHA container and in the LZMA container.
C6_ContainerRoundTrip ==
    fmt_pc = "read" => fmt_read = [err |-> "none", entries |-> fmt_entries]

\* two different entries have been written and read back
C6_Witness ==
    /\ fmt_pc = "read"
    /\ Len(fmt_entries) = 2
    /\ fmt_entries[1] # fmt_entries[2]
    /\ Len(fmt_entries[1].filename) = 2
    /\ fmt_read.entries = fmt_entries

\* a and b have the same length and differ in exactly one byte
C17_OneByteOff(a, b) ==
    /\ Len(a) = Len(b)
    /\ Cardinality({i \in 1..Len(a) : a[i] # b[i]}) = 1

\* C17: the entry compress_file builds from a file records the file's length
\* and CRC-32; verify_integrity(entry, d) is true when d is the file's
\* bytes, and false when d differs from them in exactly one byte or in
\* length.
C17_IntegrityVerified ==
    /\ vi_pc # "idle" =>
           /\ vi_entry.original_size = Len(vi_data)
           /\ vi_entry.crc32 = calculate_crc32(vi_data)
    /\ vi_pc = "verified" =>
           /\ vi_d = vi_data => vi_result
           /\ (Len(vi_d) # Len(vi_data) \/ C17_OneByteOff(vi_data, vi_d)) => ~vi_result

\* a three-byte file against the same bytes with the middle one changed by
\* one bit
C17_Witness ==
    /\ vi_pc = "verified"
    /\ vi_data = <<0, 1, 255>>
    /\ vi_d = <<0, 0, 255>>
    /\ ~vi_result

\* the distinct byte values of data
C19_Present(data) == {data[i] : i \in 1..Len(data)}

\* codes is a code table for data as C19 describes it
C19_TableFor(data, codes) ==
    /\ \A b \in C19_Present(data) : DictHas(codes, b)
    /\ \A i \in 1..Len(codes) :
           /\ codes[i][1] \in C19_Present(data)
           /\ Len(codes[i][2]) >= 1
           /\ Len(codes[i][2]) <= 255
           /\ Len(codes[i][2]) <= Max(1, Cardinality(C19_Present(data)) - 1)
           /\ \A k \in 1..Len(codes[i][2]) : codes[i][2][k] \in {48, 49}
    /\ \A i, j \in 1..Len(codes) : i # j => ~StartsWith(codes[j][2], codes[i][2])
    /\ Cardinality(C19_Present(data)) = 1 => codes = <<<<data[1], <<48>>>>>>

\* C19: for every non-empty input, the code table HuffmanTree.build makes of
\* the input's byte counts has an entry for every byte value present in the
\* input, no code is a prefix of another, every code has between 1 and 255
\* bits (at most one less than the number of distinct bytes, when there are
\* two or more), and an input with one distinct byte gets the code '0'.
C19_CodeTable ==
    (hf_pc # "idle" /\ Len(hf_in) > 0) =>
        C19_TableFor(hf_in, build(Counter(hf_in, 0, <<>>)).codes)

\* an input with three distinct bytes, one of them twice: codes of one and
\* of two bits
C19_Witness ==
    /\ hf_pc = "compressed"
    /\ hf_in = <<65, 0, 65, 1>>
    /\ \E i, j \in 1..3 :
           /\ Len(build(Counter(hf_in, 0, <<>>)).codes[i][2]) = 1
           /\ Len(build(Counter(hf_in, 0, <<>>)).codes[j][2]) = 2

\* C20: for every match length L from 3 to 273 and every pos_state,
\* _decode_length handed the bits _encode_length(L) wrote, unchanged and in
\* order, returns L, reads exactly as many bits as were written, and reads
\* them through the model entries the encoder wrote them with.
C20_LengthMirrored ==
    ln_pc = "decoded" =>
        /\ ln_dec.value = ln_length
        /\ ln_dec.pos = Len(ln_enc.bits)
        /\ ln_dec.keys = ln_enc.keys

\* C21: for every match distance d from 1 to 65536, _decode_distance handed
\* the bits _encode_distance(d) wrote, unchanged and in order, returns d and
\* reads exactly as many bits as were written.
C21_DistanceMirrored ==
    ds_pc = "decoded" =>
        /\ ds_dec.value = ds_distance
        /\ ds_dec.pos = Len(ds_enc.bits)

\* C22: with bits delivered unchanged, after every match packet (rep or new)
\* the decoder has read the same kind of packet and its rep_distances list
\* equals the encoder's after that packet.
C22_RepsMirrored ==
    \A k \in 1..Min(Len(pk_ctrace), Len(pk_dtrace)) :
        pk_ctrace[k].kind # "literal" =>
            /\ pk_dtrace[k].kind = pk_ctrace[k].kind
            /\ pk_dtrace[k].reps = pk_ctrace[k].reps

\* the distance a result of _find_longest_match stands for: the rep
\* distance of the slot -(dist + 1), or dist itself
C23_Distance(found) ==
    IF found.dist < 0 THEN found.reps[-found.dist] ELSE found.dist

\* C23: every (length, distance) _find_longest_match returns to compress
\* with length >= 3 is a real match at the current position: the length
\* bytes from pos on are in the buffer and each equals the byte the
\* distance before it.
C23_RealMatch ==
    pk_found.len >= LZMA_MIN_MATCH =>
        /\ pk_found.pos + pk_found.len <= Len(pk_data)
        /\ \A k \in 0..(pk_found.len - 1) :
               /\ pk_found.pos + k - C23_Distance(pk_found) >= 0
               /\ At(pk_data, pk_found.pos + k)
                      = At(pk_data, pk_found.pos + k - C23_Distance(pk_found))

\* the packet state after a packet of the kind, as C26 gives it
C26_After(kind, s) ==
    IF kind = "literal" THEN (IF s < 4 THEN 0 ELSE IF s < 10 THEN s - 3 ELSE s - 7)
    ELSE IF kind = "match" THEN 7
    ELSE IF s < 7 THEN 10 ELSE 11

\* the states of a run of packets: from 0 on, within 0..11, each packet
\* starting where the one before ended and ending as C26_After says
C26_Run(trace) ==
    \A k \in 1..Len(trace) :
        /\ trace[k].before = IF k = 1 THEN 0 ELSE trace[k - 1].after
        /\ trace[k].before \in 0..11
        /\ trace[k].after \in 0..11
        /\ trace[k].after = C26_After(trace[k].kind, trace[k].before)

\* C26: in compress and in decompress the packet state starts at 0, stays in
\* 0..11 and changes only as: literal -> 0 if s < 4, s - 3 if s < 10, s - 7
\* otherwise; new match -> 7; rep match -> 10 if s < 7, else 11.
C26_PacketState ==
    /\ pk_c.state \in 0..11
    /\ pk_d.state \in 0..11
    /\ pk_c.state = IF pk_ctrace = <<>> THEN 0 ELSE pk_ctrace[Len(pk_ctrace)].after
    /\ pk_d.state = IF pk_dtrace = <<>> THEN 0 ELSE pk_dtrace[Len(pk_dtrace)].after
    /\ C26_Run(pk_ctrace)
    /\ C26_Run(pk_dtrace)

\* both sides went through a literal, a new match and a rep match that
\* follows a match (7 -> 11), and through a literal after it (11 -> 4)
C26_Witness ==
    /\ pk_pc = "done"
    /\ \A t \in {pk_ctrace, pk_dtrace} :
           /\ \E k \in 1..Len(t) : t[k].kind = "match" /\ t[k].after = 7
           /\ \E k \in 1..Len(t) : t[k].kind = "rep" /\ t[k].before = 7 /\ t[k].after = 11
           /\ \E k \in 1..Len(t) : t[k].kind = "literal" /\ t[k].before = 11 /\ t[k].after = 4

\* C29: for every sequence of encode_bit calls (models reached from 1024)
\* followed by finish(), every value the encoder appends to its output is in
\* 0..255, so neither encode_bit nor finish raises.
C29_BytesInRange ==
    /\ en_pc # "raised"
    /\ en_cx.enc.ok
    /\ \A i \in 1..Len(en_cx.enc.output) : en_cx.enc.output[i] \in 0..255

\* C24: compress(data) on an LZMACompressor that has already run compress or
\* decompress on other data returns the same bytes as compress(data) on a
\* new one (and raises when that one raises).
C24_ReuseSameBytes ==
    ru_pc = "compressed" => ru_out = ru_fresh

\* the index holds position p in the bucket of the hash of data[p..p+2]
C25_Indexed(chains, data, p) ==
    \E i \in 1..Len(Chain(chains, hash3(data, p))) :
        Chain(chains, hash3(data, p))[i] = p

\* every position the index holds is one of data, in the bucket of its hash
C25_NoneStale(chains, data) ==
    \A h \in DOMAIN chains : \A i \in 1..Len(chains[h]) :
        /\ chains[h][i] \in 0..(Len(data) - 3)
        /\ hash3(data, chains[h][i]) = h

\* C25: in every LZ77Compressor.compress(data) call, a second or later one
\* on the same instance included, the hash-chain index holds every position
\* p in [0, len(data) - 3] in the bucket of the hash of data[p..p+2], and no
\* position that was indexed for an earlier buffer.
C25_IndexOfCurrentBuffer ==
    (lz_pc = "compressed" /\ lz_in # <<>>) =>
        /\ \A p \in 0..(Len(lz_in) - 3) : C25_Indexed(hash_chains, lz_in, p)
        /\ C25_NoneStale(hash_chains, lz_in)

\* the position in the buffer at which token i of tokens starts
RECURSIVE C30_Start(_, _)
C30_Start(tokens, i) ==
    IF i <= 1 THEN 0
    ELSE C30_Start(tokens, i - 1)
         + (IF tokens[i - 1].type = MATCH THEN tokens[i - 1].length ELSE 1)

C27_Archived(files, file_paths, i) ==
    /\ isfile(files, file_paths[i])
    /\ \A j \in (i + 1)..Len(file_paths) :
           isfile(files, file_paths[j]) => basename(file_paths[j]) # basename(file_paths[i])

\* C27: an archive created by the command line with --no-huffman is
\* restored bit-exactly by the extract command: for every input file the
\* extracted bytes equal the original.
C27_NoHuffmanRestored ==
    (cli_pc = "extracted" /\ cli_no_huffman) =>
        \A i \in 1..Len(cli_paths) :
            C27_Archived(cli_files, cli_paths, i) =>
                /\ basename(cli_paths[i]) \in DOMAIN cli_outdir
                /\ cli_outdir[basename(cli_paths[i])] = cli_files[cli_paths[i]]

\* the file opened at path is an entry of the directory output_dir itself
C28_DirectlyInside(output_dir, path) ==
    /\ Location(path).abs = Location(output_dir).abs
    /\ Location(path).up = Location(output_dir).up
    /\ Len(Location(path).parts) = Len(Location(output_dir).parts) + 1
    /\ SubSeq(Location(path).parts, 1, Len(Location(output_dir).parts))
           = Location(output_dir).parts

\* C28: for every archive read_archive accepts, every file extract_archive
\* writes lies directly inside output_dir, whatever the entry filenames
\* ('..', a separator, an absolute path); for both archivers.
C28_WritesInsideOutputDir ==
    pt_pc = "extracted" =>
        \A filename \in DOMAIN pt_outdir :
            C28_DirectlyInside(PtOutputDir, os_path_join(PtOutputDir, filename))


=============================================================================
